---------------------------- MODULE Spec2Model ----------------------------
(***************************************************************************)
(* Model of the CS2 match-stats pipeline (processing/parse_demo.py) and of *)
(* the sink it delivers to: the upload endpoint of backend/api_server.py   *)
(* or the local SQLite store.                                              *)
(*                                                                         *)
(* A worker is one process running main()'s loop over recordings; each     *)
(* iteration is one call of parse_demo_file.  In API mode the steps of the *)
(* server handler that serves the worker's POST are steps of that worker   *)
(* (the client is blocked in requests.post meanwhile).                     *)
(*                                                                         *)
(* Strings the code computes on (player names, file stems) are sequences   *)
(* of one-character strings, so that str.lower and str.replace are         *)
(* computed, not assumed.                                                  *)
(***************************************************************************)
EXTENDS Integers, Sequences, FiniteSets, TLC

(***************************************************************************)
(* Bounds of the model.                                                    *)
(***************************************************************************)
NumWorkers == 2
MaxRuns == 2
MaxNow == 3
MaxTtl == 2

Workers == 1..NumWorkers

\* Python's None
None == [none |-> TRUE]

(***************************************************************************)
(* Strings.                                                                *)
(***************************************************************************)
UpperCase == <<"A","B","C","D","E","F","G","H","I","J","K","L","M",
               "N","O","P","Q","R","S","T","U","V","W","X","Y","Z">>
LowerCase == <<"a","b","c","d","e","f","g","h","i","j","k","l","m",
               "n","o","p","q","r","s","t","u","v","w","x","y","z">>

Index(table, c) == CHOOSE i \in DOMAIN table : table[i] = c

\* the letters that change under lower() and upper(), with their images
ToLower == [c \in {UpperCase[i] : i \in DOMAIN UpperCase} |->
               LowerCase[Index(UpperCase, c)]]
ToUpper == [c \in {LowerCase[i] : i \in DOMAIN LowerCase} |->
               UpperCase[Index(LowerCase, c)]]

lower_char(c) == IF c \in DOMAIN ToLower THEN ToLower[c] ELSE c

upper_char(c) == IF c \in DOMAIN ToUpper THEN ToUpper[c] ELSE c

\* str.lower()
lower(s) == [i \in DOMAIN s |-> lower_char(s[i])]

\* str.upper(), used only to build letter-case variants of names as inputs
upper(s) == [i \in DOMAIN s |-> upper_char(s[i])]

nifty     == <<"n","i","f","t","y">>
Dybbis    == <<"D","y","b","b","i","s">>
Togmannen == <<"T","o","g","m","a","n","n","e","n">>
Stutmunn  == <<"S","t","u","t","m","u","n","n">>
martinsen == <<"m","a","r","t","i","n","s","e","n">>

REQUIRED_PLAYERS == {nifty, Dybbis, Togmannen, Stutmunn, martinsen}


(***************************************************************************)
(* RosterFilter: DemoStatsParser.get_player_names and                      *)
(* check_required_players.                                                 *)
(***************************************************************************)
NoneStr  == <<"N","o","n","e">>
\* a missing name in a DataFrame column (None): a one-element sequence whose
\* element is no character, so that it is no string a player can have
NoneName == <<"<None>">>
EmptyStr == <<>>

\* (attackers | victims) - {None, '', 'None'}
get_player_names(attacker_names, user_names) ==
    (attacker_names \cup user_names) \ {NoneName, EmptyStr, NoneStr}

\* the set comprehension {p.lower() for p in names}
lower_set(names) == {lower(p) : p \in names}

\* variant: the difference taken on the names as written, case kept
missing_players_cased(players) == REQUIRED_PLAYERS \ players

\* required_lower - players_lower
missing_players(players) ==
    lower_set(REQUIRED_PLAYERS) \ lower_set(players)

\* variant: a roster check that lets every recording pass
check_required_players_off(players) == TRUE

\* the boolean that check_required_players returns
check_required_players(players) == missing_players(players) = {}

(***************************************************************************)
(* MatchIdentity: DemoStatsParser.get_match_id on the file's stem.         *)
(***************************************************************************)
NotUnderscore(c) == c # "_"

\* filename.replace('_', '')
get_match_id(stem) == SelectSeq(stem, NotUnderscore)

(***************************************************************************)
(* Inputs of the pipeline: the recordings main() finds (by file stem), and *)
(* what the two parse functions return for one of them: the stats of the   *)
(* recording, or nothing when parsing fails.                               *)
(***************************************************************************)
Demo1 == <<"m","_","1">>
Demo2 == <<"m","_","2">>

DemoFiles == {Demo1, Demo2}

Stats(k, d) ==
    [kills_total |-> k, deaths_total |-> d, dmg |-> 0, utility_dmg |-> 0,
     headshot_kills_total |-> 0, ace_rounds_total |-> 0,
     quad_rounds_total |-> 0, triple_rounds_total |-> 0, mvps |-> 0]

\* the stats of the tracked players in recording f: a dict name -> stats, in
\* insertion order
PlayerStatsOf(f) ==
    IF f = Demo1
    THEN << [name |-> nifty, stats |-> Stats(1, 0)] >>
    ELSE << [name |-> nifty, stats |-> Stats(0, 1)],
            [name |-> Dybbis, stats |-> Stats(2, 0)] >>

\* the map outcome of recording f
MapStatsOf(f) ==
    [map_name |-> "de_dust2", date_time |-> "2024-05-01 20:30:00",
     won |-> IF f = Demo1 THEN 1 ELSE 0]

\* what parse_player_stats returns for recording f: its stats, or the empty
\* dict <<>> (no tracked player found, or an exception)
PlayerStatsResults(f) == { <<>>, PlayerStatsOf(f) }

\* what parse_map_stats returns for recording f: its map outcome, or None
\* (an exception)
MapStatsResults(f) == { None, MapStatsOf(f) }

\* the names check_required_players sees in the pipeline runs
PipelineObserved ==
    { REQUIRED_PLAYERS, {upper(p) : p \in REQUIRED_PLAYERS} \ {upper(martinsen)} }

(***************************************************************************)
(* The sink: a SQLite database file.  db[s] holds the committed tables in  *)
(* rowid order; txn[w] the rows worker w's connection has inserted and not *)
(* yet committed; lock[s] the connection holding the write lock (0: none). *)
(* Sink "api" is the server's database, sink "local" the processing one.   *)
(***************************************************************************)
Sinks == {"api", "local"}

VARIABLES db, lock, txn

(***************************************************************************)
(* One worker: main()'s loop calling parse_demo_file for each recording of *)
(* demo_files, the listing it found.                                       *)
(***************************************************************************)
VARIABLES demo_files, pc, use_api, demo_path, players, match_id,
          player_stats, map_stats, idx, status, success, outcome,
          successful, skipped, failed, scheduled

(***************************************************************************)
(* History of the current parse_demo_file call, for stating properties:    *)
(* ran[w] the steps it has run, attempts[w] the uploads it has started,    *)
(* cause[w] why its upload did not deliver ("exists": the existence check  *)
(* found the match, "unique": the INSERT hit the UNIQUE constraint,        *)
(* "error": another statement error, "transport": the HTTP exchange        *)
(* failed).  db0 is the sinks' content at the start.                       *)
(***************************************************************************)
VARIABLES ran, attempts, cause, db0

(***************************************************************************)
(* The roster check taken alone, on the names of a kill-event table.       *)
(***************************************************************************)
VARIABLES attacker_names, user_names, roster_pc, roster_ok, roster_missing

(***************************************************************************)
(* One DemoStatsParser taken alone: the event tables of its recording (a   *)
(* table is a sequence of rows, or NoTable when parse_event gives none),   *)
(* the recording's name and modification time, the timestamps handed to    *)
(* get_round_for_tick, and the value the method under study returned.      *)
(***************************************************************************)
VARIABLES kills_df, damage_df, round_end_df, ticks_df, filename, mtime,
          tick, parser_pc, ret

(***************************************************************************)
(* schedule_cleanup: cleanup[w] is the cleanup argument of worker w's      *)
(* parse_demo_file call, once `success and cleanup` has read it (FALSE     *)
(* until then), cleanup_thread the                                         *)
(* background threads that are asleep (the file each will delete and the   *)
(* time its sleep ends), removed the recordings os.remove has deleted,     *)
(* clock the time in hours.                                                *)
(***************************************************************************)
VARIABLES cleanup, cleanup_thread, removed, clock

(***************************************************************************)
(* The API's security middleware: config is what the constructor stored,   *)
(* geo_cache the IPGeolocationCache's dict, now the value of time.time(),  *)
(* incoming the requests still to arrive, request[r] the dispatch call of  *)
(* connection r.  History, for stating properties: last_set[ip] is the     *)
(* latest set() for ip, last_code[ip] the time of the latest lookup for ip *)
(* that returned a country code, cache_op the cache method called last at  *)
(* this instant and what it returned.                                      *)
(***************************************************************************)
VARIABLES config, geo_cache, now, incoming, request, last_set, last_code,
          cache_op

sinkVars   == <<db, lock, txn>>
workerVars == <<demo_files, pc, use_api, demo_path, players, match_id,
                player_stats, map_stats, idx, status, success, outcome,
                successful, skipped, failed, scheduled>>
histVars   == <<ran, attempts, cause, db0>>
rosterVars == <<attacker_names, user_names, roster_pc, roster_ok, roster_missing>>
parserVars == <<kills_df, damage_df, round_end_df, ticks_df, filename, mtime,
                tick, parser_pc, ret>>
cleanupVars == <<cleanup, cleanup_thread, removed, clock>>
securityVars == <<config, geo_cache, now, incoming, request, last_set,
                  last_code, cache_op>>
vars == <<sinkVars, workerVars, histVars, rosterVars, parserVars, cleanupVars,
          securityVars>>

EmptyTables == [map_stats |-> <<>>, player_stats |-> <<>>]
EmptyTxn    == [map_stats |-> <<>>, player_stats |-> <<>>]

SinkOf(w) == IF use_api[w] THEN "api" ELSE "local"

\* the row of INSERT INTO map_stats (match_id, map_name, date_time, won)
MapRow(m, ms) ==
    [match_id |-> m, map_name |-> ms.map_name, date_time |-> ms.date_time,
     won |-> ms.won]

\* the row of INSERT INTO player_stats (...)
PlayerRow(m, p) ==
    [match_id |-> m, name |-> p.name,
     kills_total |-> p.stats.kills_total, deaths_total |-> p.stats.deaths_total,
     dmg |-> p.stats.dmg, utility_dmg |-> p.stats.utility_dmg,
     headshot_kills_total |-> p.stats.headshot_kills_total,
     ace_rounds_total |-> p.stats.ace_rounds_total,
     quad_rounds_total |-> p.stats.quad_rounds_total,
     triple_rounds_total |-> p.stats.triple_rounds_total,
     mvps |-> p.stats.mvps]

RowsOf(table, m) == SelectSeq(table, LAMBDA r : r.match_id = m)

\* SELECT COUNT(*) FROM map_stats WHERE match_id = ?  on connection w:
\* the committed rows and the connection's own uncommitted ones
CountMapStats(s, w, m) ==
    Len(RowsOf(db[s].map_stats, m)) + Len(RowsOf(txn[w].map_stats, m))

\* variant: map_stats.match_id declared without UNIQUE
MapStatsNotUnique == FALSE

\* map_stats.match_id is declared TEXT UNIQUE
MapStatsUnique == TRUE

\* whether INSERT INTO map_stats raises sqlite3.IntegrityError
ViolatesUnique(s, w, m) == MapStatsUnique /\ CountMapStats(s, w, m) > 0

\* a write statement needs the database's write lock
CanWrite(s, w) == lock[s] \in {0, w}



(***************************************************************************)
(* The API's security middleware: APITokenAuthMiddleware ("token"),        *)
(* IPGeolocationMiddleware ("geo") and CombinedSecurityMiddleware          *)
(* ("combined").  Header values, tokens and addresses are sequences of     *)
(* characters; paths and country codes are strings.                        *)
(***************************************************************************)
Space == " "

\* a character outside ASCII, as a header value decoded as latin-1 can hold
NonAscii == "U+00E9"

RECURSIVE split(_)
\* str.split(): the maximal runs of non-blank characters
split(s) ==
    IF s = <<>> THEN <<>>
    ELSE IF Head(s) = Space THEN split(Tail(s))
    ELSE LET rest == split(Tail(s))
         IN  IF Len(s) > 1 /\ s[2] # Space
             THEN << <<Head(s)>> \o Head(rest) >> \o Tail(rest)
             ELSE << <<Head(s)>> >> \o rest

\* str.startswith
startswith(s, prefix) ==
    Len(s) >= Len(prefix) /\ SubSeq(s, 1, Len(prefix)) = prefix

IsAscii(s) == \A i \in DOMAIN s : s[i] # NonAscii

\* secrets.compare_digest on two str: "TypeError" unless both are ASCII
compare_digest(a, b) ==
    IF IsAscii(a) /\ IsAscii(b)
    THEN IF a = b THEN "True" ELSE "False"
    ELSE "TypeError"

\* the API_TOKEN the server is configured with
api_token == <<"t","k">>

bearer == <<"b","e","a","r","e","r">>

\* the Authorization header is absent (None) or empty: `not auth_header`
NoHeader == <<>>

\* _verify_token, and the same lines of APITokenAuthMiddleware.dispatch:
\* 0 when the token is accepted, 401 when HTTPException(401) is raised, 500
\* when another exception leaves the middleware
verify_token(auth_header) ==
    IF auth_header = NoHeader THEN 401
    ELSE LET parts == split(auth_header)
         IN  IF Len(parts) # 2 THEN 401
             ELSE IF lower(parts[1]) # bearer THEN 401
             ELSE LET same == compare_digest(parts[2], api_token)
                  IN  IF same = "TypeError" THEN 500
                      ELSE IF same = "False" THEN 401
                      ELSE 0

\* the exempt paths a middleware has when none are given
DefaultExemptPaths(kind) ==
    IF kind = "geo"
    THEN {"/health", "/docs", "/openapi.json", "/redoc"}
    ELSE {"/", "/health", "/docs", "/openapi.json", "/redoc"}

\* the exempt_paths argument of the constructor: not given (None), or a list
NotGiven == [given |-> FALSE, paths |-> {}]
Given(paths) == [given |-> TRUE, paths |-> paths]

\* self.exempt_paths = exempt_paths or [...]; IPGeolocationMiddleware has
\* no such argument
ExemptPaths(kind, arg) ==
    IF kind # "geo" /\ arg.given /\ arg.paths # {}
    THEN arg.paths
    ELSE DefaultExemptPaths(kind)

local_patterns ==
    { <<"1","2","7",".">>, <<"l","o","c","a","l","h","o","s","t">>,
      <<":",":","1">>, <<"1","9","2",".","1","6","8",".">>,
      <<"1","0",".">>, <<"1","7","2",".">> }

\* _is_local_ip
is_local_ip(ip) == \E pattern \in local_patterns : startswith(ip, pattern)

\* Python's None as a country code
NoCountry == "<None>"

\* `if country_code:`
Truthy(country_code) == country_code \notin {NoCountry, ""}

\* the answer of ip-api.com to one lookup, or an exception in the exchange
Reply(raised, status_code, data_status, countryCode) ==
    [raised |-> raised, status_code |-> status_code, status |-> data_status,
     countryCode |-> countryCode]

\* why a lookup gave no country of the service: "" when it gave one
Failure(reply) ==
    IF reply.raised THEN "exception"
    ELSE IF reply.status_code # 200 THEN "non-200"
    ELSE IF reply.status # "success" THEN "status"
    ELSE ""

\* _lookup_country
lookup_country(kind, allowed_countries, reply) ==
    IF reply.raised
    THEN IF kind = "combined" /\ allowed_countries # <<>>
         THEN allowed_countries[1]
         ELSE "NO"
    ELSE IF reply.status_code = 200 /\ reply.status = "success"
    THEN reply.countryCode
    ELSE NoCountry

\* `country_code not in self.allowed_countries`, negated
Allowed(country_code, allowed_countries) ==
    \E i \in DOMAIN allowed_countries : allowed_countries[i] = country_code

(***************************************************************************)
(* IPGeolocationCache.  The dict is a function from the addresses it holds *)
(* to (country_code, timestamp).                                           *)
(***************************************************************************)
\* variant: an entry that is ttl_seconds old still counts
FreshInclusive(age, ttl_seconds) == age <= ttl_seconds

\* time.time() - timestamp < self.ttl_seconds
Fresh(age, ttl_seconds) == age < ttl_seconds

\* del self.cache[ip]
Remove(cache, ips) == [x \in DOMAIN cache \ ips |-> cache[x]]

\* IPGeolocationCache.get: the value returned and the dict afterwards
get(cache, ip, at, ttl_seconds) ==
    IF ip \in DOMAIN cache
    THEN IF Fresh(at - cache[ip].timestamp, ttl_seconds)
         THEN [value |-> cache[ip].country_code, cache |-> cache]
         ELSE [value |-> NoCountry, cache |-> Remove(cache, {ip})]
    ELSE [value |-> NoCountry, cache |-> cache]

\* IPGeolocationCache.set
set(cache, ip, country_code, at) ==
    [x \in DOMAIN cache \cup {ip} |->
        IF x = ip THEN [country_code |-> country_code, timestamp |-> at]
        ELSE cache[x]]

\* IPGeolocationCache.clear_expired
clear_expired(cache, at, ttl_seconds) ==
    Remove(cache, {x \in DOMAIN cache : at - cache[x].timestamp >= ttl_seconds})

(***************************************************************************)
(* dispatch, one call per request.  It runs without interruption up to the *)
(* await of the country lookup and from the lookup's return to its end.    *)
(***************************************************************************)
Connections == {"a", "b"}

Idle ==
    [pc |-> "idle", path |-> "", auth |-> <<>>, ip |-> <<>>,
     country_code |-> NoCountry, status_code |-> 0, called_next |-> FALSE,
     looked_up |-> FALSE, failure |-> ""]

SecurityIdle ==
    /\ config = [kind |-> "combined", token_auth_enabled |-> TRUE,
                 geolocation_enabled |-> TRUE, exempt_arg |-> NotGiven,
                 exempt_paths |-> DefaultExemptPaths("combined"),
                 allowed_countries |-> <<"NO">>, cache_ttl |-> MaxTtl]
    /\ geo_cache = <<>>
    /\ now = 0
    /\ incoming = <<>>
    /\ request = [r \in Connections |-> Idle]
    /\ last_set = <<>>
    /\ last_code = <<>>
    /\ cache_op = [op |-> "none", ip |-> <<>>, value |-> NoCountry]

\* the server accepts the next request and calls dispatch
Arrive(r) ==
    /\ request[r].pc = "idle"
    /\ incoming # <<>>
    /\ request' = [request EXCEPT ![r] =
                      [Idle EXCEPT !.pc = "received",
                                   !.path = Head(incoming).path,
                                   !.auth = Head(incoming).auth,
                                   !.ip = Head(incoming).ip]]
    /\ incoming' = Tail(incoming)
    /\ UNCHANGED <<sinkVars, rosterVars, parserVars, cleanupVars,
                   demo_files, pc, use_api, demo_path, players, match_id,
                   player_stats, map_stats, idx, status, success, outcome,
                   successful, skipped, failed, scheduled, ran, attempts,
                   cause, db0, config, geo_cache, now, last_set, last_code,
                   cache_op>>

\* return await call_next(request)
CallNext(q) == [q EXCEPT !.pc = "done", !.called_next = TRUE]

\* the request ends with an error response of this status
Respond(q, status_code) == [q EXCEPT !.pc = "done", !.status_code = status_code]

\* `if country_code not in self.allowed_countries: raise HTTPException(403)`
\* and what follows it
Verdict(q, country_code) ==
    IF Allowed(country_code, config.allowed_countries)
    THEN CallNext([q EXCEPT !.country_code = country_code])
    ELSE Respond([q EXCEPT !.country_code = country_code], 403)

\* `if not self.enabled` and `if request.url.path in self.exempt_paths` of
\* the two single middlewares; the exempt-path test of the combined one
Bypass(path) ==
    \/ config.kind = "token" /\ ~config.token_auth_enabled
    \/ config.kind = "geo" /\ ~config.geolocation_enabled
    \/ path \in config.exempt_paths

\* variant: every request is looked up, whatever the cache returned
LookupAlways(country_code) == TRUE

\* `if country_code is None`
NeedsLookup(country_code) == country_code = NoCountry

\* dispatch, from its start to its end or to the await of the lookup
Dispatch(r) ==
    /\ request[r].pc = "received"
    /\ LET q == request[r]
           token == IF config.token_auth_enabled THEN verify_token(q.auth) ELSE 0
           cached == get(geo_cache, q.ip, now, config.cache_ttl)
       IN  IF Bypass(q.path)
           THEN /\ request' = [request EXCEPT ![r] = CallNext(q)]
                /\ UNCHANGED geo_cache
           ELSE IF token # 0
           THEN /\ request' = [request EXCEPT ![r] = Respond(q, token)]
                /\ UNCHANGED geo_cache
           ELSE IF ~config.geolocation_enabled \/ is_local_ip(q.ip)
           THEN /\ request' = [request EXCEPT ![r] = CallNext(q)]
                /\ UNCHANGED geo_cache
           ELSE /\ geo_cache' = cached.cache
                /\ request' = [request EXCEPT ![r] =
                                  IF NeedsLookup(cached.value)
                                  THEN [q EXCEPT !.pc = "lookup", !.looked_up = TRUE]
                                  ELSE Verdict(q, cached.value)]
    /\ UNCHANGED <<sinkVars, rosterVars, parserVars, cleanupVars,
                   demo_files, pc, use_api, demo_path, players, match_id,
                   player_stats, map_stats, idx, status, success, outcome,
                   successful, skipped, failed, scheduled, ran, attempts,
                   cause, db0, config, now, incoming, last_set, last_code,
                   cache_op>>

\* the lookup returns: `if country_code: self.cache.set(...)`, then the
\* verdict
LookupReturns(r, reply) ==
    /\ request[r].pc = "lookup"
    /\ LET q == request[r]
           country_code == lookup_country(config.kind, config.allowed_countries, reply)
       IN  /\ IF Truthy(country_code)
              THEN /\ geo_cache' = set(geo_cache, q.ip, country_code, now)
                   /\ last_set' = set(last_set, q.ip, country_code, now)
                   /\ last_code' = [x \in DOMAIN last_code \cup {q.ip} |->
                                       IF x = q.ip THEN now ELSE last_code[x]]
              ELSE UNCHANGED <<geo_cache, last_set, last_code>>
           /\ request' = [request EXCEPT ![r] =
                             Verdict([q EXCEPT !.failure = Failure(reply)],
                                     country_code)]
    /\ UNCHANGED <<sinkVars, rosterVars, parserVars, cleanupVars,
                   demo_files, pc, use_api, demo_path, players, match_id,
                   player_stats, map_stats, idx, status, success, outcome,
                   successful, skipped, failed, scheduled, ran, attempts,
                   cause, db0, config, now, incoming, cache_op>>

\* the response is sent and dispatch's locals are gone
Forget(r) ==
    /\ request[r].pc = "done"
    /\ request' = [request EXCEPT ![r] = Idle]
    /\ UNCHANGED <<sinkVars, rosterVars, parserVars, cleanupVars,
                   demo_files, pc, use_api, demo_path, players, match_id,
                   player_stats, map_stats, idx, status, success, outcome,
                   successful, skipped, failed, scheduled, ran, attempts,
                   cause, db0, config, geo_cache, now, incoming, last_set,
                   last_code, cache_op>>

\* a second passes
TimePasses ==
    /\ now < MaxNow
    /\ now' = now + 1
    /\ cache_op' = [op |-> "none", ip |-> <<>>, value |-> NoCountry]
    /\ UNCHANGED <<sinkVars, rosterVars, parserVars, cleanupVars,
                   demo_files, pc, use_api, demo_path, players, match_id,
                   player_stats, map_stats, idx, status, success, outcome,
                   successful, skipped, failed, scheduled, ran, attempts,
                   cause, db0, config, geo_cache, incoming, request,
                   last_set, last_code>>

(***************************************************************************)
(* The cache's methods called one by one.                                  *)
(***************************************************************************)
CacheSet(ip, country_code) ==
    /\ geo_cache' = set(geo_cache, ip, country_code, now)
    /\ last_set' = set(last_set, ip, country_code, now)
    /\ cache_op' = [op |-> "set", ip |-> ip, value |-> country_code]
    /\ UNCHANGED <<sinkVars, rosterVars, parserVars, cleanupVars,
                   demo_files, pc, use_api, demo_path, players, match_id,
                   player_stats, map_stats, idx, status, success, outcome,
                   successful, skipped, failed, scheduled, ran, attempts,
                   cause, db0, config, now, incoming, request, last_code>>

CacheGet(ip) ==
    /\ LET got == get(geo_cache, ip, now, config.cache_ttl)
       IN  /\ geo_cache' = got.cache
           /\ cache_op' = [op |-> "get", ip |-> ip, value |-> got.value]
    /\ UNCHANGED <<sinkVars, rosterVars, parserVars, cleanupVars,
                   demo_files, pc, use_api, demo_path, players, match_id,
                   player_stats, map_stats, idx, status, success, outcome,
                   successful, skipped, failed, scheduled, ran, attempts,
                   cause, db0, config, now, incoming, request, last_set,
                   last_code>>

ClearExpired ==
    /\ geo_cache' = clear_expired(geo_cache, now, config.cache_ttl)
    /\ cache_op' = [op |-> "clear", ip |-> <<>>, value |-> NoCountry]
    /\ UNCHANGED <<sinkVars, rosterVars, parserVars, cleanupVars,
                   demo_files, pc, use_api, demo_path, players, match_id,
                   player_stats, map_stats, idx, status, success, outcome,
                   successful, skipped, failed, scheduled, ran, attempts,
                   cause, db0, config, now, incoming, request, last_set,
                   last_code>>
(***************************************************************************)
(* Initial state: empty databases, every worker before its first           *)
(* recording.  A run of the program uses one sink for all its uploads.     *)
(***************************************************************************)
InitSink ==
    /\ db = [s \in Sinks |-> EmptyTables]
    /\ db0 = db
    /\ lock = [s \in Sinks |-> 0]
    /\ txn = [w \in Workers |-> EmptyTxn]

InitLocals ==
    /\ pc = [w \in Workers |-> "idle"]
    /\ demo_path = [w \in Workers |-> <<>>]
    /\ players = [w \in Workers |-> {}]
    /\ match_id = [w \in Workers |-> <<>>]
    /\ player_stats = [w \in Workers |-> <<>>]
    /\ map_stats = [w \in Workers |-> None]
    /\ idx = [w \in Workers |-> 0]
    /\ status = [w \in Workers |-> 0]
    /\ success = [w \in Workers |-> FALSE]
    /\ outcome = [w \in Workers |-> "none"]
    /\ cause = [w \in Workers |-> "none"]
    /\ ran = [w \in Workers |-> {}]
    /\ attempts = [w \in Workers |-> 0]
    /\ successful = [w \in Workers |-> 0]
    /\ skipped = [w \in Workers |-> 0]
    /\ failed = [w \in Workers |-> 0]
    /\ scheduled = {}
    /\ cleanup = [w \in Workers |-> FALSE]
    /\ cleanup_thread = {}
    /\ removed = {}
    /\ clock = 0

RosterIdle ==
    /\ attacker_names = {}
    /\ user_names = {}
    /\ roster_pc = "off"
    /\ roster_ok = FALSE
    /\ roster_missing = {}

ParserIdle ==
    /\ kills_df = <<>>
    /\ damage_df = <<>>
    /\ round_end_df = <<>>
    /\ ticks_df = <<>>
    /\ filename = <<>>
    /\ mtime = 0
    /\ tick = <<>>
    /\ parser_pc = "off"
    /\ ret = <<>>

\* the listing each run of main() finds holds one recording; the runs are
\* interchangeable, so only the number of them given each recording matters
Listings ==
    { [w \in Workers |-> IF w <= k THEN <<Demo1>> ELSE <<Demo2>>] :
        k \in 0..NumWorkers }

Init ==
    /\ InitSink
    /\ InitLocals
    /\ SecurityIdle
    /\ demo_files \in Listings
    /\ \E api \in BOOLEAN : use_api = [w \in Workers |-> api]
    /\ RosterIdle
    /\ ParserIdle

(***************************************************************************)
(* parse_demo_file, step by step.                                          *)
(***************************************************************************)
\* `return value` in parse_demo_file, at the place tagged `tag`
Return(w, value, tag) ==
    /\ pc' = [pc EXCEPT ![w] = "returned"]
    /\ success' = [success EXCEPT ![w] = value]
    /\ outcome' = [outcome EXCEPT ![w] = tag]

\* main(): `for demo_file in sorted(demo_files)` takes the next recording
\* and calls parse_demo_file, which constructs the parser
Start(w) ==
    /\ pc[w] = "idle"
    /\ demo_files[w] # <<>>
    /\ demo_path' = [demo_path EXCEPT ![w] = Head(demo_files[w])]
    /\ demo_files' = [demo_files EXCEPT ![w] = Tail(@)]
    /\ pc' = [pc EXCEPT ![w] = "check_required_players"]
    /\ UNCHANGED <<sinkVars, rosterVars, parserVars, cleanupVars,
                   securityVars, use_api, players, match_id, player_stats,
                   map_stats, idx, status, success, outcome, successful,
                   skipped, failed, scheduled, ran, attempts, cause, db0>>

\* if not parser.check_required_players(): return False
CheckRequiredPlayers(w) ==
    /\ pc[w] = "check_required_players"
    /\ ran' = [ran EXCEPT ![w] = @ \cup {"check_required_players"}]
    /\ \E names \in PipelineObserved :
          /\ players' = [players EXCEPT ![w] = names]
          /\ IF check_required_players(names)
             THEN /\ pc' = [pc EXCEPT ![w] = "get_match_id"]
                  /\ UNCHANGED <<success, outcome>>
             ELSE Return(w, FALSE, "Skipped")
    /\ UNCHANGED <<sinkVars, rosterVars, parserVars, cleanupVars,
                   securityVars, demo_files, use_api, demo_path, match_id,
                   player_stats, map_stats, idx, status, successful,
                   skipped, failed, scheduled, attempts, cause, db0>>

\* match_id = parser.get_match_id()
GetMatchId(w) ==
    /\ pc[w] = "get_match_id"
    /\ ran' = [ran EXCEPT ![w] = @ \cup {"get_match_id"}]
    /\ match_id' = [match_id EXCEPT ![w] = get_match_id(demo_path[w])]
    /\ pc' = [pc EXCEPT ![w] =
                 IF use_api[w] THEN "parse_player_stats" ELSE "match_exists_in_db"]
    /\ UNCHANGED <<sinkVars, rosterVars, parserVars, cleanupVars,
                   securityVars, demo_files, use_api, demo_path, players,
                   player_stats, map_stats, idx, status, success, outcome,
                   successful, skipped, failed, scheduled, attempts, cause,
                   db0>>

\* if not use_api and match_exists_in_db(match_id): return False
MatchExistsInDb(w) ==
    /\ pc[w] = "match_exists_in_db"
    /\ ran' = [ran EXCEPT ![w] = @ \cup {"match_exists_in_db"}]
    /\ IF CountMapStats("local", w, match_id[w]) > 0
       THEN /\ Return(w, FALSE, "AlreadyExists")
            /\ cause' = [cause EXCEPT ![w] = "exists"]
       ELSE /\ pc' = [pc EXCEPT ![w] = "parse_player_stats"]
            /\ UNCHANGED <<success, outcome, cause>>
    /\ UNCHANGED <<sinkVars, rosterVars, parserVars, cleanupVars,
                   securityVars, demo_files, use_api, demo_path, players,
                   match_id, player_stats, map_stats, idx, status,
                   successful, skipped, failed, scheduled, attempts, db0>>

\* variant: the empty player_stats is not tested
PlayerStatsUnchecked(ps) == TRUE

\* `if not player_stats`
PlayerStatsOk(ps) == ps # <<>>

\* player_stats = parser.parse_player_stats(); if not player_stats: return False
ParsePlayerStats(w) ==
    /\ pc[w] = "parse_player_stats"
    /\ ran' = [ran EXCEPT ![w] = @ \cup {"parse_player_stats"}]
    /\ \E ps \in PlayerStatsResults(demo_path[w]) :
          /\ player_stats' = [player_stats EXCEPT ![w] = ps]
          /\ IF PlayerStatsOk(ps)
             THEN /\ pc' = [pc EXCEPT ![w] = "parse_map_stats"]
                  /\ UNCHANGED <<success, outcome>>
             ELSE Return(w, FALSE, "ParseFailed")
    /\ UNCHANGED <<sinkVars, rosterVars, parserVars, cleanupVars,
                   securityVars, demo_files, use_api, demo_path, players,
                   match_id, map_stats, idx, status, successful, skipped,
                   failed, scheduled, attempts, cause, db0>>

\* `if not map_stats`
MapStatsOk(ms) == ms # None

\* map_stats = parser.parse_map_stats(); if not map_stats: return False
ParseMapStats(w) ==
    /\ pc[w] = "parse_map_stats"
    /\ ran' = [ran EXCEPT ![w] = @ \cup {"parse_map_stats"}]
    /\ \E ms \in MapStatsResults(demo_path[w]) :
          /\ map_stats' = [map_stats EXCEPT ![w] = ms]
          /\ IF MapStatsOk(ms)
             THEN /\ pc' = [pc EXCEPT ![w] = "upload"]
                  /\ UNCHANGED <<success, outcome>>
             ELSE Return(w, FALSE, "ParseFailed")
    /\ UNCHANGED <<sinkVars, rosterVars, parserVars, cleanupVars,
                   securityVars, demo_files, use_api, demo_path, players,
                   match_id, player_stats, idx, status, successful, skipped,
                   failed, scheduled, attempts, cause, db0>>

(***************************************************************************)
(* SQLite, as Python's sqlite3 module drives it: the first INSERT of a     *)
(* connection opens a transaction and takes the write lock; the rows are   *)
(* visible to other connections only after commit; a connection dropped    *)
(* with an open transaction rolls it back.                                 *)
(***************************************************************************)
\* variant: a connection in autocommit mode (isolation_level=None)
AutoCommit == FALSE

\* sqlite3.connect(DB_PATH) with the default isolation_level: an INSERT
\* opens a transaction implicitly
ImplicitTransaction == TRUE

SqlInsert(s, w, table, row) ==
    IF ImplicitTransaction
    THEN /\ txn' = [txn EXCEPT ![w][table] = Append(@, row)]
         /\ lock' = [lock EXCEPT ![s] = w]
         /\ UNCHANGED db
    ELSE /\ db' = [db EXCEPT ![s][table] = Append(@, row)]
         /\ UNCHANGED <<txn, lock>>

\* conn.commit()
SqlCommit(s, w) ==
    /\ db' = [db EXCEPT ![s] =
                 [map_stats |-> @.map_stats \o txn[w].map_stats,
                  player_stats |-> @.player_stats \o txn[w].player_stats]]
    /\ txn' = [txn EXCEPT ![w] = EmptyTxn]
    /\ lock' = [lock EXCEPT ![s] = IF @ = w THEN 0 ELSE @]

\* the connection is dropped without commit
SqlRollback(s, w) ==
    /\ txn' = [txn EXCEPT ![w] = EmptyTxn]
    /\ lock' = [lock EXCEPT ![s] = IF @ = w THEN 0 ELSE @]
    /\ UNCHANGED db

(***************************************************************************)
(* The upload step of parse_demo_file, API mode: upload_to_api on the      *)
(* client, upload_match_data on the server.                                *)
(***************************************************************************)
\* if use_api: if not api_url: return False
UploadNoUrl(w) ==
    /\ pc[w] = "upload"
    /\ use_api[w]
    /\ Return(w, FALSE, "NoApiUrl")
    /\ UNCHANGED <<sinkVars, rosterVars, parserVars, cleanupVars,
                   securityVars, demo_files, use_api, demo_path, players,
                   match_id, player_stats, map_stats, idx, status,
                   successful, skipped, failed, scheduled, ran, attempts,
                   cause, db0>>

\* upload_to_api: requests.post(f"{api_url}/api/upload", ...).  The request
\* reaches the handler, or requests raises (connection refused, timeout)
UploadToApi(w) ==
    /\ pc[w] = "upload"
    /\ use_api[w]
    /\ ran' = [ran EXCEPT ![w] = @ \cup {"upload"}]
    /\ attempts' = [attempts EXCEPT ![w] = @ + 1]
    /\ \E reached \in BOOLEAN :
          IF reached
          THEN /\ pc' = [pc EXCEPT ![w] = "srv_check"]
               /\ UNCHANGED <<success, outcome, cause>>
          ELSE /\ pc' = [pc EXCEPT ![w] = "after_upload"]
               /\ success' = [success EXCEPT ![w] = FALSE]
               /\ outcome' = [outcome EXCEPT ![w] = "Rejected"]
               /\ cause' = [cause EXCEPT ![w] = "transport"]
    /\ UNCHANGED <<sinkVars, rosterVars, parserVars, cleanupVars,
                   securityVars, demo_files, use_api, demo_path, players,
                   match_id, player_stats, map_stats, idx, status,
                   successful, skipped, failed, scheduled, db0>>

\* variant: a handler that inserts without looking for the match first
ServerInsertsBlindly == FALSE

\* whether the handler looks for the match before it inserts
ServerChecksFirst == TRUE

\* upload_match_data: SELECT COUNT(*) ...; if > 0: conn.close(); raise 409
SrvCheck(w) ==
    /\ pc[w] = "srv_check"
    /\ IF ServerChecksFirst /\ CountMapStats("api", w, match_id[w]) > 0
       THEN /\ status' = [status EXCEPT ![w] = 409]
            /\ cause' = [cause EXCEPT ![w] = "exists"]
            /\ pc' = [pc EXCEPT ![w] = "api_response"]
       ELSE /\ pc' = [pc EXCEPT ![w] = "srv_insert_map"]
            /\ UNCHANGED <<status, cause>>
    /\ UNCHANGED <<sinkVars, rosterVars, parserVars, cleanupVars,
                   securityVars, demo_files, use_api, demo_path, players,
                   match_id, player_stats, map_stats, idx, success, outcome,
                   successful, skipped, failed, scheduled, ran, attempts,
                   db0>>

\* except Exception: raise HTTPException(status_code=500); the connection is
\* dropped with its transaction open
SrvRaise(w) ==
    /\ status' = [status EXCEPT ![w] = 500]
    /\ pc' = [pc EXCEPT ![w] = "api_response"]
    /\ SqlRollback("api", w)

\* upload_match_data: INSERT INTO map_stats
SrvInsertMap(w) ==
    /\ pc[w] = "srv_insert_map"
    /\ CanWrite("api", w)
    /\ IF ViolatesUnique("api", w, match_id[w])
       THEN /\ SrvRaise(w)
            /\ cause' = [cause EXCEPT ![w] = "unique"]
            /\ UNCHANGED idx
       ELSE /\ SqlInsert("api", w, "map_stats", MapRow(match_id[w], map_stats[w]))
            /\ idx' = [idx EXCEPT ![w] = 1]
            /\ pc' = [pc EXCEPT ![w] =
                         IF player_stats[w] # <<>> THEN "srv_insert_player"
                         ELSE "srv_commit"]
            /\ UNCHANGED <<status, cause>>
    /\ UNCHANGED <<rosterVars, parserVars, cleanupVars, securityVars,
                   demo_files, use_api, demo_path, players, match_id,
                   player_stats, map_stats, success, outcome, successful,
                   skipped, failed, scheduled, ran, attempts, db0>>

\* upload_match_data: for player in match_data.player_stats: INSERT ...
SrvInsertPlayer(w) ==
    /\ pc[w] = "srv_insert_player"
    /\ CanWrite("api", w)
    /\ SqlInsert("api", w, "player_stats",
                 PlayerRow(match_id[w], player_stats[w][idx[w]]))
    /\ idx' = [idx EXCEPT ![w] = @ + 1]
    /\ pc' = [pc EXCEPT ![w] =
                 IF idx[w] < Len(player_stats[w]) THEN @ ELSE "srv_commit"]
    /\ UNCHANGED <<rosterVars, parserVars, cleanupVars, securityVars,
                   demo_files, use_api, demo_path, players, match_id,
                   player_stats, map_stats, status, success, outcome,
                   successful, skipped, failed, scheduled, ran, attempts,
                   cause, db0>>

\* upload_match_data: conn.commit(); conn.close(); return {"status": "success"}
SrvCommit(w) ==
    /\ pc[w] = "srv_commit"
    /\ SqlCommit("api", w)
    /\ status' = [status EXCEPT ![w] = 200]
    /\ pc' = [pc EXCEPT ![w] = "api_response"]
    /\ UNCHANGED <<rosterVars, parserVars, cleanupVars, securityVars,
                   demo_files, use_api, demo_path, players, match_id,
                   player_stats, map_stats, idx, success, outcome,
                   successful, skipped, failed, scheduled, ran, attempts,
                   cause, db0>>

\* a statement of the handler raises for another reason: the write lock is
\* held by another connection until the busy timeout, an I/O error, an
\* integer too large for SQLite
SrvFail(w) ==
    /\ pc[w] \in {"srv_insert_map", "srv_insert_player", "srv_commit"}
    /\ SrvRaise(w)
    /\ cause' = [cause EXCEPT ![w] = "error"]
    /\ UNCHANGED <<rosterVars, parserVars, cleanupVars, securityVars,
                   demo_files, use_api, demo_path, players, match_id,
                   player_stats, map_stats, idx, success, outcome,
                   successful, skipped, failed, scheduled, ran, attempts,
                   db0>>

\* variant: upload_to_api without its branch for status 409
ApiOutcomeNo409(code) ==
    IF code = 200 THEN "Delivered" ELSE "Rejected"

\* upload_to_api: the branch taken on response.status_code
ApiOutcome(code) ==
    IF code = 200 THEN "Delivered"
    ELSE IF code = 409 THEN "AlreadyExists"
    ELSE "Rejected"

\* upload_to_api: the value returned for response.status_code
ApiSuccess(code) == code = 200

\* upload_to_api: the response arrives and is classified, or requests raises
\* (the response is lost, the 30 s timeout passes)
ApiResponse(w) ==
    /\ pc[w] = "api_response"
    /\ \E received \in BOOLEAN :
          IF received
          THEN /\ success' = [success EXCEPT ![w] = ApiSuccess(status[w])]
               /\ outcome' = [outcome EXCEPT ![w] = ApiOutcome(status[w])]
               /\ UNCHANGED <<status, cause>>
          ELSE /\ success' = [success EXCEPT ![w] = FALSE]
               /\ outcome' = [outcome EXCEPT ![w] = "Rejected"]
               /\ status' = [status EXCEPT ![w] = 0]
               /\ cause' = [cause EXCEPT ![w] = "transport"]
    /\ pc' = [pc EXCEPT ![w] = "after_upload"]
    /\ UNCHANGED <<sinkVars, rosterVars, parserVars, cleanupVars,
                   securityVars, demo_files, use_api, demo_path, players,
                   match_id, player_stats, map_stats, idx, successful,
                   skipped, failed, scheduled, ran, attempts, db0>>

(***************************************************************************)
(* The upload step of parse_demo_file, database mode: upload_to_database.  *)
(***************************************************************************)
\* else: success = upload_to_database(match_id, player_stats, map_stats)
UploadToDatabase(w) ==
    /\ pc[w] = "upload"
    /\ ~use_api[w]
    /\ ran' = [ran EXCEPT ![w] = @ \cup {"upload"}]
    /\ attempts' = [attempts EXCEPT ![w] = @ + 1]
    /\ pc' = [pc EXCEPT ![w] = "db_insert_map"]
    /\ UNCHANGED <<sinkVars, rosterVars, parserVars, cleanupVars,
                   securityVars, demo_files, use_api, demo_path, players,
                   match_id, player_stats, map_stats, idx, status, success,
                   outcome, successful, skipped, failed, scheduled, cause,
                   db0>>

\* except Exception: return False; the connection is dropped with its
\* transaction open
DbRaise(w) ==
    /\ success' = [success EXCEPT ![w] = FALSE]
    /\ outcome' = [outcome EXCEPT ![w] = "Rejected"]
    /\ pc' = [pc EXCEPT ![w] = "after_upload"]
    /\ SqlRollback("local", w)

\* upload_to_database: INSERT INTO map_stats
DbInsertMap(w) ==
    /\ pc[w] = "db_insert_map"
    /\ CanWrite("local", w)
    /\ IF ViolatesUnique("local", w, match_id[w])
       THEN /\ DbRaise(w)
            /\ cause' = [cause EXCEPT ![w] = "unique"]
            /\ UNCHANGED idx
       ELSE /\ SqlInsert("local", w, "map_stats", MapRow(match_id[w], map_stats[w]))
            /\ idx' = [idx EXCEPT ![w] = 1]
            /\ pc' = [pc EXCEPT ![w] =
                         IF player_stats[w] # <<>> THEN "db_insert_player"
                         ELSE "db_commit"]
            /\ UNCHANGED <<success, outcome, cause>>
    /\ UNCHANGED <<rosterVars, parserVars, cleanupVars, securityVars,
                   demo_files, use_api, demo_path, players, match_id,
                   player_stats, map_stats, status, successful, skipped,
                   failed, scheduled, ran, attempts, db0>>

\* upload_to_database: for player_name, stats in player_stats.items(): INSERT
DbInsertPlayer(w) ==
    /\ pc[w] = "db_insert_player"
    /\ CanWrite("local", w)
    /\ SqlInsert("local", w, "player_stats",
                 PlayerRow(match_id[w], player_stats[w][idx[w]]))
    /\ idx' = [idx EXCEPT ![w] = @ + 1]
    /\ pc' = [pc EXCEPT ![w] =
                 IF idx[w] < Len(player_stats[w]) THEN @ ELSE "db_commit"]
    /\ UNCHANGED <<rosterVars, parserVars, cleanupVars, securityVars,
                   demo_files, use_api, demo_path, players, match_id,
                   player_stats, map_stats, status, success, outcome,
                   successful, skipped, failed, scheduled, ran, attempts,
                   cause, db0>>

\* upload_to_database: conn.commit(); conn.close(); return True
DbCommit(w) ==
    /\ pc[w] = "db_commit"
    /\ SqlCommit("local", w)
    /\ success' = [success EXCEPT ![w] = TRUE]
    /\ outcome' = [outcome EXCEPT ![w] = "Delivered"]
    /\ pc' = [pc EXCEPT ![w] = "after_upload"]
    /\ UNCHANGED <<rosterVars, parserVars, cleanupVars, securityVars,
                   demo_files, use_api, demo_path, players, match_id,
                   player_stats, map_stats, idx, status, successful,
                   skipped, failed, scheduled, ran, attempts, cause, db0>>

\* a statement of upload_to_database raises for another reason (busy
\* timeout, I/O error, integer overflow)
DbFail(w) ==
    /\ pc[w] \in {"db_insert_map", "db_insert_player", "db_commit"}
    /\ DbRaise(w)
    /\ cause' = [cause EXCEPT ![w] = "error"]
    /\ UNCHANGED <<rosterVars, parserVars, cleanupVars, securityVars,
                   demo_files, use_api, demo_path, players, match_id,
                   player_stats, map_stats, idx, status, successful,
                   skipped, failed, scheduled, ran, attempts, db0>>

(***************************************************************************)
(* The end of parse_demo_file and main()'s bookkeeping.                    *)
(***************************************************************************)
\* variant: a failed upload is tried again
RetryUploadPc(ok) == IF ok THEN "returned" ELSE "upload"

\* where parse_demo_file continues once the upload function has returned ok
AfterUploadPc(ok) == "returned"

\* delay_hours=3 at the one call of schedule_cleanup
CleanupDelay == 3

\* the time at which a sleep of delay_hours that starts at time start ends
WakeTime(start, delay_hours) == start + delay_hours

\* schedule_cleanup: cleanup_thread.start(); the thread begins its sleep and
\* the caller goes on
schedule_cleanup(path, delay_hours) ==
    cleanup_thread' = cleanup_thread \cup
        {[path |-> path, wake |-> WakeTime(clock, delay_hours)]}

\* if success and cleanup: schedule_cleanup(demo_path, delay_hours=3)
\* return success
AfterUpload(w) ==
    /\ pc[w] = "after_upload"
    /\ IF success[w]
       THEN \E c \in BOOLEAN :
               /\ cleanup' = [cleanup EXCEPT ![w] = c]
               /\ IF c
                  THEN /\ scheduled' = scheduled \cup {demo_path[w]}
                       /\ schedule_cleanup(demo_path[w], CleanupDelay)
                       /\ ran' = [ran EXCEPT ![w] = @ \cup {"schedule_cleanup"}]
                  ELSE UNCHANGED <<scheduled, cleanup_thread, ran>>
       ELSE UNCHANGED <<cleanup, scheduled, cleanup_thread, ran>>
    /\ pc' = [pc EXCEPT ![w] = AfterUploadPc(success[w])]
    /\ UNCHANGED <<sinkVars, rosterVars, parserVars, securityVars,
                   demo_files, use_api, demo_path, players, match_id,
                   player_stats, map_stats, idx, status, success, outcome,
                   successful, skipped, failed, attempts, cause, db0,
                   removed, clock>>

\* main(): if result: ... elif result is False: ... else: ...
CountResult(result) ==
    IF result = TRUE THEN "successful"
    ELSE IF result = FALSE THEN "skipped"
    ELSE "failed"

\* main(): the counters after one parse_demo_file call; the call's locals
\* are gone
MainCount(w) ==
    /\ pc[w] = "returned"
    /\ successful' = [successful EXCEPT ![w] =
                         IF CountResult(success[w]) = "successful" THEN @ + 1 ELSE @]
    /\ skipped' = [skipped EXCEPT ![w] =
                      IF CountResult(success[w]) = "skipped" THEN @ + 1 ELSE @]
    /\ failed' = [failed EXCEPT ![w] =
                     IF CountResult(success[w]) = "failed" THEN @ + 1 ELSE @]
    /\ pc' = [pc EXCEPT ![w] = "idle"]
    /\ demo_path' = [demo_path EXCEPT ![w] = <<>>]
    /\ players' = [players EXCEPT ![w] = {}]
    /\ match_id' = [match_id EXCEPT ![w] = <<>>]
    /\ player_stats' = [player_stats EXCEPT ![w] = <<>>]
    /\ map_stats' = [map_stats EXCEPT ![w] = None]
    /\ idx' = [idx EXCEPT ![w] = 0]
    /\ status' = [status EXCEPT ![w] = 0]
    /\ success' = [success EXCEPT ![w] = FALSE]
    /\ outcome' = [outcome EXCEPT ![w] = "none"]
    /\ cause' = [cause EXCEPT ![w] = "none"]
    /\ ran' = [ran EXCEPT ![w] = {}]
    /\ attempts' = [attempts EXCEPT ![w] = 0]
    /\ cleanup' = [cleanup EXCEPT ![w] = FALSE]
    /\ UNCHANGED <<sinkVars, rosterVars, parserVars, securityVars,
                   demo_files, use_api, scheduled, db0, cleanup_thread,
                   removed, clock>>

Step(w) ==
    \/ Start(w)
    \/ CheckRequiredPlayers(w)
    \/ GetMatchId(w)
    \/ MatchExistsInDb(w)
    \/ ParsePlayerStats(w)
    \/ ParseMapStats(w)
    \/ UploadNoUrl(w)
    \/ UploadToApi(w)
    \/ SrvCheck(w)
    \/ SrvInsertMap(w)
    \/ SrvInsertPlayer(w)
    \/ SrvCommit(w)
    \/ SrvFail(w)
    \/ ApiResponse(w)
    \/ UploadToDatabase(w)
    \/ DbInsertMap(w)
    \/ DbInsertPlayer(w)
    \/ DbCommit(w)
    \/ DbFail(w)
    \/ AfterUpload(w)
    \/ MainCount(w)

Next == \E w \in Workers : Step(w)

Spec == Init /\ [][Next]_vars

(***************************************************************************)
(* One recording delivered MaxRuns times in sequence through each of the   *)
(* two sinks: a recursive listing that finds MaxRuns copies of the file,   *)
(* processed by worker 1 through the API and by worker 2 through the local *)
(* store, both databases starting with the same rows.                      *)
(***************************************************************************)
\* the tables after recording f alone was delivered
StoreWith(f) ==
    [map_stats |-> << MapRow(get_match_id(f), MapStatsOf(f)) >>,
     player_stats |-> [i \in 1..Len(PlayerStatsOf(f)) |->
                          PlayerRow(get_match_id(f), PlayerStatsOf(f)[i])]]

InitialStores == {EmptyTables} \cup {StoreWith(f) : f \in DemoFiles}

InitPair ==
    /\ \E st \in InitialStores : db = [s \in Sinks |-> st]
    /\ db0 = db
    /\ lock = [s \in Sinks |-> 0]
    /\ txn = [w \in Workers |-> EmptyTxn]
    /\ InitLocals
    /\ SecurityIdle
    /\ \E f \in DemoFiles :
          demo_files = [w \in Workers |->
                           IF w <= 2 THEN [i \in 1..MaxRuns |-> f] ELSE <<>>]
    /\ use_api = [w \in Workers |-> w = 1]
    /\ RosterIdle
    /\ ParserIdle

SpecPair == InitPair /\ [][Next]_vars

(***************************************************************************)
(* The roster check alone, on the names of one kill-event table: the       *)
(* attackers as the roster writes them, the victims in upper case.         *)
(***************************************************************************)
Bot == <<"b","o","t">>

AttackerUniverse == REQUIRED_PLAYERS \cup {NoneName, Bot}
VictimUniverse == {upper(p) : p \in REQUIRED_PLAYERS} \cup {EmptyStr, NoneStr}

InitRoster ==
    /\ InitSink
    /\ InitLocals
    /\ SecurityIdle
    /\ demo_files = [w \in Workers |-> <<>>]
    /\ use_api = [w \in Workers |-> FALSE]
    /\ attacker_names \in SUBSET AttackerUniverse
    /\ user_names \in SUBSET VictimUniverse
    /\ roster_pc = "start"
    /\ roster_ok = FALSE
    /\ roster_missing = {}
    /\ ParserIdle

\* check_required_players on the names get_player_names extracts
RosterCheck ==
    /\ roster_pc = "start"
    /\ LET names == get_player_names(attacker_names, user_names)
       IN  /\ roster_ok' = check_required_players(names)
           /\ roster_missing' = missing_players(names)
    /\ roster_pc' = "done"
    /\ UNCHANGED <<sinkVars, workerVars, histVars, cleanupVars, securityVars,
                   parserVars,
                   attacker_names,
                   user_names>>

SpecRoster == InitRoster /\ [][RosterCheck]_vars

(***************************************************************************)
(* Properties.                                                             *)
(***************************************************************************)
MatchIds == {get_match_id(f) : f \in DemoFiles}

\* the number of times row occurs in table
Occurrences(table, row) == Cardinality({i \in 1..Len(table) : table[i] = row})

\* the invocation of worker w got as far as handing its payload to the sink
Submitted(w) ==
    /\ pc[w] = "returned"
    /\ outcome[w] \in {"Delivered", "AlreadyExists", "Rejected"}

C2_Idempotent ==
    \A w \in Workers :
        ( /\ Submitted(w)
          /\ cause[w] \notin {"error", "transport"}
          /\ skipped[w] = 0 /\ failed[w] = 0
          /\ RowsOf(db0[SinkOf(w)].map_stats, match_id[w]) = <<>> )
        => /\ (successful[w] = 0 => outcome[w] = "Delivered")
           /\ (successful[w] >= 1 => outcome[w] = "AlreadyExists")
           /\ RowsOf(db[SinkOf(w)].map_stats, match_id[w])
                = StoreWith(demo_path[w]).map_stats
           /\ RowsOf(db[SinkOf(w)].player_stats, match_id[w])
                = StoreWith(demo_path[w]).player_stats

\* C2 witness: a second delivery of the recording has answered AlreadyExists.
C2_Witness ==
    \E w \in Workers :
        /\ Submitted(w)
        /\ successful[w] = 1 /\ skipped[w] = 0
        /\ outcome[w] = "AlreadyExists"
        /\ RowsOf(db0[SinkOf(w)].map_stats, match_id[w]) = <<>>

\* C3: the committed rows of a match are complete payloads: every map_stats
\* record of a match_id comes with every player row of its payload, and no
\* player row is stored without its map_stats record.
C3_AllOrNothing ==
    \A s \in Sinks : \A f \in DemoFiles :
        LET m == get_match_id(f)
            n == Len(RowsOf(db[s].map_stats, m))
            players_m == RowsOf(db[s].player_stats, m)
        IN  /\ \A i \in 1..n :
                  RowsOf(db[s].map_stats, m)[i] = MapRow(m, MapStatsOf(f))
            /\ Len(players_m) = n * Len(PlayerStatsOf(f))
            /\ \A i \in 1..Len(PlayerStatsOf(f)) :
                  Occurrences(players_m, PlayerRow(m, PlayerStatsOf(f)[i])) = n

\* C3 witness: an upload failed after the map_stats record and a player row
\* were inserted, and the sink holds nothing of that match.
C3_Witness ==
    \E w \in Workers :
        /\ cause[w] = "error"
        /\ idx[w] >= 2
        /\ pc[w] = "returned"
        /\ RowsOf(db[SinkOf(w)].map_stats, match_id[w]) = <<>>
        /\ RowsOf(db[SinkOf(w)].player_stats, match_id[w]) = <<>>

\* C4: an invocation that met an existing record of its match_id, at the
\* existence check or at the INSERT after a race, ends as AlreadyExists, and
\* over the API with status 409.
C4_ConflictIsAlreadyExists ==
    \A w \in Workers :
        (pc[w] \in {"after_upload", "returned"} /\ cause[w] \in {"exists", "unique"})
        => /\ outcome[w] = "AlreadyExists"
           /\ (use_api[w] => status[w] = 409)

\* C5: the value parse_demo_file returns is counted by main() as a failure
\* exactly when the invocation ended as Rejected.
C5_FailureTold ==
    \A w \in Workers :
        pc[w] = "returned"
        => (outcome[w] = "Rejected" <=> CountResult(success[w]) = "failed")

\* C6: the same recording delivered through the API and through the local
\* store, both sinks starting with the same rows and both invocations
\* following the same earlier deliveries, neither or both meeting a failing
\* store: the two outcomes are the same and both sinks hold the same rows of
\* the match.
C6_SinksAgree ==
    ( /\ Submitted(1) /\ Submitted(2)
      /\ successful[1] = successful[2]
      /\ skipped[1] = 0 /\ skipped[2] = 0
      /\ failed[1] = 0 /\ failed[2] = 0
      /\ cause[1] # "transport"
      /\ (cause[1] = "error" <=> cause[2] = "error") )
    => /\ outcome[1] = outcome[2]
       /\ RowsOf(db["api"].map_stats, match_id[1])
            = RowsOf(db["local"].map_stats, match_id[2])
       /\ RowsOf(db["api"].player_stats, match_id[1])
            = RowsOf(db["local"].player_stats, match_id[2])

\* C6 witness: both sinks have answered AlreadyExists to the same second
\* delivery.
C6_Witness ==
    /\ Submitted(1) /\ Submitted(2)
    /\ successful[1] = 1 /\ successful[2] = 1
    /\ skipped[1] = 0 /\ skipped[2] = 0
    /\ outcome[1] = "AlreadyExists" /\ outcome[2] = "AlreadyExists"

\* C7: an invocation hands its payload to the sink at most once, and an
\* invocation whose one attempt failed has ended, as Rejected, with that one
\* attempt.
C7_NoRetry ==
    \A w \in Workers :
        /\ attempts[w] <= 1
        /\ outcome[w] = "Rejected"
           => (pc[w] \in {"after_upload", "returned"} /\ attempts[w] = 1)

\* C7 witness: an invocation has ended as Rejected after its one attempt.
C7_Witness ==
    \E w \in Workers :
        /\ pc[w] = "returned"
        /\ outcome[w] = "Rejected"
        /\ attempts[w] = 1

\* worker w takes the step
Acts(w) == pc'[w] # pc[w] \/ idx'[w] # idx[w]

\* parse_player_stats or parse_map_stats of worker w returned nothing
ParseGaveNothing(w) ==
    \/ "parse_player_stats" \in ran[w] /\ player_stats[w] = <<>>
    \/ "parse_map_stats" \in ran[w] /\ map_stats[w] = None

\* C8: no step of an invocation before its upload step changes a sink (its
\* rows, its lock, an open transaction), and an invocation whose
\* parse_player_stats or parse_map_stats returned nothing has ended without
\* reaching the upload step.
C8_DerivationLeavesSink ==
    /\ [][\A w \in Workers :
            (Acts(w) /\ "upload" \notin ran[w]) => UNCHANGED sinkVars]_vars
    /\ [](\A w \in Workers :
            ParseGaveNothing(w)
            => /\ pc[w] = "returned"
               /\ outcome[w] = "ParseFailed"
               /\ "upload" \notin ran[w]
               /\ attempts[w] = 0
               /\ txn[w] = EmptyTxn)

\* C8 witness: parse_map_stats returned nothing after parse_player_stats
\* had returned stats, and the invocation has ended.
C8_Witness ==
    \E w \in Workers :
        /\ pc[w] = "returned"
        /\ player_stats[w] # <<>>
        /\ "parse_map_stats" \in ran[w]
        /\ map_stats[w] = None

\* two names are the same but for the case of their letters
SameName(a, b) == lower(a) = lower(b)

\* the tracked player r is among the observed names
Present(r, observed) == \E o \in observed : SameName(o, r)

\* C9: the roster check passes exactly when every tracked player is among
\* the observed names, compared without regard to case, and the names it
\* reports missing are exactly the tracked players that are absent.
C9_RosterFilter ==
    roster_pc = "done"
    => LET observed == get_player_names(attacker_names, user_names)
       IN  /\ roster_ok <=> \A r \in REQUIRED_PLAYERS : Present(r, observed)
           /\ \A r \in REQUIRED_PLAYERS :
                 (\E x \in roster_missing : SameName(x, r))
                 <=> ~Present(r, observed)
           /\ \A x \in roster_missing :
                 \E r \in REQUIRED_PLAYERS : SameName(x, r)

\* C9 witness: a tracked player seen only as a victim and in upper case
\* counts as present, while another one is reported missing.
C9_Witness ==
    /\ roster_pc = "done"
    /\ ~roster_ok
    /\ upper(Dybbis) \in user_names
    /\ Dybbis \notin attacker_names
    /\ roster_missing = {lower(martinsen)}

\* C10: an invocation whose roster check failed has ended as SKIP, and
\* nothing after the check has run: no match id, no parsing, no upload, no
\* cleanup scheduled, no row written.
C10_SkipEndsRun ==
    \A w \in Workers :
        ("check_required_players" \in ran[w] /\ missing_players(players[w]) # {})
        => /\ pc[w] = "returned"
           /\ outcome[w] = "Skipped"
           /\ ~success[w]
           /\ ran[w] = {"check_required_players"}
           /\ match_id[w] = <<>>
           /\ player_stats[w] = <<>>
           /\ map_stats[w] = None
           /\ attempts[w] = 0
           /\ txn[w] = EmptyTxn

\* C10 witness: an invocation has ended as SKIP.
C10_Witness ==
    \E w \in Workers :
        /\ pc[w] = "returned"
        /\ outcome[w] = "Skipped"
        /\ missing_players(players[w]) # {}

(***************************************************************************)
(* Event tables.  A pandas DataFrame is its set of column names and its    *)
(* sequence of rows; every row is a record with a value for each field,    *)
(* and the code reads a field only after it found the column.  NoTable is  *)
(* what parse_event gives when it does not give a DataFrame.               *)
(***************************************************************************)
DataFrame(cols, rows) == [is_df |-> TRUE, columns |-> cols, rows |-> rows]

NoTable == [is_df |-> FALSE, columns |-> {}, rows |-> <<>>]

\* isinstance(df, pd.DataFrame)
IsDataFrame(df) == df.is_df

\* df.empty
Empty(df) == df.rows = <<>> \/ df.columns = {}

\* set(df[col].unique()) if col in df.columns else set()
Unique(df, col) ==
    IF col \in df.columns
    THEN {df.rows[i][col] : i \in DOMAIN df.rows}
    ELSE {}

\* rows[col].sum()
RECURSIVE Sum(_, _)
Sum(rows, col) ==
    IF rows = <<>> THEN 0 ELSE Head(rows)[col] + Sum(Tail(rows), col)

KillColumns   == {"attacker_name", "user_name", "headshot", "tick"}
DamageColumns == {"attacker_name", "dmg_health", "weapon"}
RoundColumns  == {"tick", "round", "winner"}

\* get_player_names on the player_death table
player_names(kills) ==
    IF IsDataFrame(kills)
    THEN get_player_names(Unique(kills, "attacker_name"),
                          Unique(kills, "user_name"))
    ELSE {}

\* utility_weapons
utility_weapons == {"hegrenade", "molotov", "incgrenade", "inferno"}

\* variant: every tick is given the round of the last row
get_round_last(rounds, t) == rounds[Len(rounds)].round

\* variant: a tick after the last row is given the round of the first row
get_round_wrapping(rounds, t) ==
    IF \E i \in DOMAIN rounds : t <= rounds[i].tick
    THEN rounds[CHOOSE i \in DOMAIN rounds :
                   /\ t <= rounds[i].tick
                   /\ \A j \in 1..(i - 1) : t > rounds[j].tick].round
    ELSE rounds[1].round

\* get_round_for_tick: the round of the first row of round_end_df whose tick
\* is not before t, the round of the last row when there is none
RECURSIVE get_round_for_tick(_, _)
get_round_for_tick(rounds, t) ==
    IF Len(rounds) = 1 THEN Head(rounds).round
    ELSE IF t <= Head(rounds).tick THEN Head(rounds).round
    ELSE get_round_for_tick(Tail(rounds), t)

\* player_kills.groupby('round').size(): for each round with a kill of the
\* player, the number of these kills
kills_per_round(player_kills, rounds) ==
    LET round_of(i) == get_round_for_tick(rounds, player_kills[i].tick)
        groups == {round_of(i) : i \in DOMAIN player_kills}
    IN  [r \in groups |->
            Cardinality({i \in DOMAIN player_kills : round_of(i) = r})]

\* variant: an ace from four kills on
IsAceFromFour(n) == n >= 4

\* variant: two kills in a round already count as a triple
IsTripleFromTwo(n) == n >= 2

\* the tiers: kills_per_round >= 5, == 4, == 3
IsAce(n)    == n >= 5
IsQuad(n)   == n = 4
IsTriple(n) == n = 3

\* len(kills_per_round[kills_per_round >= 5]), and so on for each tier
ace_rounds(per_round) ==
    Cardinality({r \in DOMAIN per_round : IsAce(per_round[r])})
quad_rounds(per_round) ==
    Cardinality({r \in DOMAIN per_round : IsQuad(per_round[r])})
triple_rounds(per_round) ==
    Cardinality({r \in DOMAIN per_round : IsTriple(per_round[r])})

\* whether the multi-kill block computes anything for the player
HasRounds(kdf, rounds, player_kills) ==
    /\ ~Empty(kdf)
    /\ {"attacker_name", "tick"} \subseteq kdf.columns
    /\ IsDataFrame(rounds)
    /\ ~Empty(rounds)
    /\ {"tick", "round"} \subseteq rounds.columns
    /\ player_kills # <<>>

\* kills_df['attacker_name'] == player
NameIs(name, player) == name = player

\* `damage_df is not None and not damage_df.empty and 'attacker_name' in
\* damage_df.columns`
HasDamage(damage) ==
    /\ IsDataFrame(damage)
    /\ ~Empty(damage)
    /\ "attacker_name" \in damage.columns

\* variant: the amounts are summed without looking for their column
HasAmountsUnchecked(damage) == TRUE

\* `'dmg_health' in player_damage.columns`
HasAmounts(damage) == "dmg_health" \in damage.columns

\* variant: every weapon counts as utility
IsUtilityAlways(row) == TRUE

\* player_damage['weapon'].isin(utility_weapons)
IsUtility(row) == row.weapon \in utility_weapons

\* the body of the loop of parse_player_stats for one observed name
player_record(player, kdf, damage, rounds) ==
    LET IsAttacker(row) == NameIs(row.attacker_name, player)
        IsVictim(row)   == NameIs(row.user_name, player)
        IsHeadshot(row) == IsAttacker(row) /\ row.headshot = TRUE
        has_kills  == ~Empty(kdf) /\ "attacker_name" \in kdf.columns
        has_damage == HasDamage(damage)
        player_damage == SelectSeq(damage.rows, IsAttacker)
        player_kills  == SelectSeq(kdf.rows, IsAttacker)
        per_round     == kills_per_round(player_kills, rounds.rows)
        multi         == HasRounds(kdf, rounds, player_kills)
    IN  [kills_total |->
            IF has_kills THEN Len(SelectSeq(kdf.rows, IsAttacker)) ELSE 0,
         deaths_total |->
            IF ~Empty(kdf) /\ "user_name" \in kdf.columns
            THEN Len(SelectSeq(kdf.rows, IsVictim)) ELSE 0,
         headshot_kills_total |->
            IF has_kills /\ "headshot" \in kdf.columns
            THEN Len(SelectSeq(kdf.rows, IsHeadshot)) ELSE 0,
         dmg |->
            IF has_damage /\ HasAmounts(damage)
            THEN Sum(player_damage, "dmg_health") ELSE 0,
         utility_dmg |->
            IF has_damage /\ "weapon" \in damage.columns /\ HasAmounts(damage)
            THEN Sum(SelectSeq(player_damage, IsUtility), "dmg_health") ELSE 0,
         ace_rounds_total    |-> IF multi THEN ace_rounds(per_round) ELSE 0,
         quad_rounds_total   |-> IF multi THEN quad_rounds(per_round) ELSE 0,
         triple_rounds_total |-> IF multi THEN triple_rounds(per_round) ELSE 0,
         mvps |-> 0]

\* `if player_lower not in {p.lower() for p in REQUIRED_PLAYERS}: continue`
IsRequired(player) == lower(player) \in lower_set(REQUIRED_PLAYERS)

\* parse_player_stats: the dict stats, one entry for each observed name of a
\* tracked player; kills_df that is no DataFrame is replaced by an empty one
parse_player_stats(kills, damage, rounds) ==
    LET kdf == IF IsDataFrame(kills) THEN kills ELSE DataFrame({}, <<>>)
    IN  [player \in {p \in player_names(kills) : IsRequired(p)} |->
            player_record(player, kdf, damage, rounds)]

(***************************************************************************)
(* parse_player_stats alone, on the tables of a recording that passes the  *)
(* roster check: three kills that show the whole roster, then up to        *)
(* MaxKills further kills and a damage table of up to MaxHurts rows, or    *)
(* none, or one that lacks a column.                                       *)
(***************************************************************************)
MaxKills == 2
MaxHurts == 2

\* the sequences over S of length up to n
SeqUpTo(S, n) == UNION {[1..k -> S] : k \in 0..n}

Kill(a, v, hs, t) ==
    [attacker_name |-> a, user_name |-> v, headshot |-> hs, tick |-> t]

Hurt(a, amount, weapon) ==
    [attacker_name |-> a, dmg_health |-> amount, weapon |-> weapon]

RoundEnd(t, r, side) == [tick |-> t, round |-> r, winner |-> side]

RosterKills ==
    << Kill(nifty, Dybbis, TRUE, 1),
       Kill(Togmannen, Stutmunn, FALSE, 1),
       Kill(martinsen, Bot, FALSE, 1) >>

\* further kills: by a tracked player under two spellings of the name, and
\* of that player by another one
KillEvents ==
    { Kill(nifty, Dybbis, TRUE, 1), Kill(nifty, Dybbis, FALSE, 1),
      Kill(upper(nifty), Dybbis, TRUE, 1),
      Kill(Bot, nifty, FALSE, 1), Kill(Bot, upper(nifty), TRUE, 1) }

HurtEvents ==
    { Hurt(a, wd[2], wd[1]) :
        a \in {nifty, upper(nifty)},
        wd \in { <<"hegrenade", 50>>, <<"ak47", 40>>, <<"weapon_unknown", 30>> } }

KillTables ==
    { DataFrame(KillColumns, RosterKills \o extra) :
        extra \in SeqUpTo(KillEvents, MaxKills) }

SomeHurts == << Hurt(nifty, 50, "hegrenade"), Hurt(nifty, 40, "ak47") >>

\* damage tables that are absent or malformed: no DataFrame, an empty one,
\* one without the attacker or without the amount column
AbsentDamageTables ==
    { NoTable,
      DataFrame({}, <<>>),
      DataFrame(DamageColumns \ {"attacker_name"}, SomeHurts),
      DataFrame(DamageColumns \ {"dmg_health"}, SomeHurts) }

DamageTables ==
    { DataFrame(DamageColumns, rows) : rows \in SeqUpTo(HurtEvents, MaxHurts) }
    \cup AbsentDamageTables
    \cup { DataFrame(DamageColumns \ {"weapon"}, SomeHurts) }

TwoRounds ==
    DataFrame(RoundColumns, << RoundEnd(10, 1, "CT"), RoundEnd(20, 2, "T") >>)

\* everything but the parser at rest
PipelineIdle ==
    /\ InitSink
    /\ InitLocals
    /\ SecurityIdle
    /\ demo_files = [w \in Workers |-> <<>>]
    /\ use_api = [w \in Workers |-> FALSE]
    /\ RosterIdle

InitStats ==
    /\ PipelineIdle
    /\ kills_df \in KillTables
    /\ damage_df \in DamageTables
    /\ round_end_df = TwoRounds
    /\ ticks_df = <<>>
    /\ filename = <<>>
    /\ mtime = 0
    /\ tick = <<>>
    /\ parser_pc = "stats"
    /\ ret = <<>>

\* player_stats = parser.parse_player_stats()
ParseStats ==
    /\ parser_pc = "stats"
    /\ ret' = parse_player_stats(kills_df, damage_df, round_end_df)
    /\ parser_pc' = "done"
    /\ UNCHANGED <<sinkVars, workerVars, histVars, cleanupVars, securityVars,
                   rosterVars,
                   kills_df,
                   damage_df, round_end_df, ticks_df, filename, mtime, tick>>

SpecStats == InitStats /\ [][ParseStats]_vars

(***************************************************************************)
(* get_round_for_tick alone: a round_end table as the event source gives   *)
(* it, up to MaxRounds rows in tick order with rising round numbers, and   *)
(* two timestamps up to one past MaxTick.                                  *)
(***************************************************************************)
MaxRounds == 3
MaxTick == 4

\* the strictly rising sequences over 1..n of length 1 to k
RisingSeqs(n, k) ==
    { s \in SeqUpTo(1..n, k) :
        /\ s # <<>>
        /\ \A i \in 1..(Len(s) - 1) : s[i] < s[i + 1] }

\* round_end tables: row i ends round first + i - 1
RoundTables ==
    { DataFrame(RoundColumns,
                [i \in DOMAIN ends |-> RoundEnd(ends[i], first + i - 1, "CT")]) :
        ends \in RisingSeqs(MaxTick, MaxRounds), first \in {1, 2} }

InitRounds ==
    /\ PipelineIdle
    /\ kills_df = <<>>
    /\ damage_df = <<>>
    /\ round_end_df \in RoundTables
    /\ ticks_df = <<>>
    /\ filename = <<>>
    /\ mtime = 0
    /\ tick \in (0..(MaxTick + 1)) \X (0..(MaxTick + 1))
    /\ parser_pc = "rounds"
    /\ ret = <<>>

\* player_kills['tick'].apply(get_round_for_tick), on two ticks
ApplyRounds ==
    /\ parser_pc = "rounds"
    /\ ret' = << get_round_for_tick(round_end_df.rows, tick[1]),
                 get_round_for_tick(round_end_df.rows, tick[2]) >>
    /\ parser_pc' = "done"
    /\ UNCHANGED <<sinkVars, workerVars, histVars, cleanupVars, securityVars,
                   rosterVars,
                   kills_df,
                   damage_df, round_end_df, ticks_df, filename, mtime, tick>>

SpecRounds == InitRounds /\ [][ApplyRounds]_vars

(***************************************************************************)
(* parse_player_stats on the kills of one tracked player over one or two   *)
(* rounds: the three kills that show the roster, then up to MaxRoundKills  *)
(* kills before the end of the first or of the second round.               *)
(***************************************************************************)
MaxRoundKills == 5

RoundKillEvents ==
    { Kill(nifty, Bot, FALSE, 5), Kill(nifty, Bot, TRUE, 15),
      Kill(Dybbis, Bot, FALSE, 5) }

OneRound == DataFrame(RoundColumns, << RoundEnd(10, 1, "CT") >>)

InitMultiKill ==
    /\ PipelineIdle
    /\ \E extra \in SeqUpTo(RoundKillEvents, MaxRoundKills) :
          kills_df = DataFrame(KillColumns, RosterKills \o extra)
    /\ damage_df = NoTable
    /\ round_end_df \in {OneRound, TwoRounds}
    /\ ticks_df = <<>>
    /\ filename = <<>>
    /\ mtime = 0
    /\ tick = <<>>
    /\ parser_pc = "stats"
    /\ ret = <<>>

SpecMultiKill == InitMultiKill /\ [][ParseStats]_vars

(***************************************************************************)
(* parse_map_stats: who won, and when the match was played.                *)
(***************************************************************************)
\* the lookback of the final-round window, in ticks
Lookback == 1000

TickColumns == {"tick", "name", "team_name"}

Sample(t, name, team) == [tick |-> t, name |-> name, team_name |-> team]

\* variant: the side samples of the whole match are used
InWindowAlways(t, last_round_tick) == TRUE

\* (ticks_df['tick'] >= last_round_tick - 1000) &
\* (ticks_df['tick'] <= last_round_tick)
InWindow(t, last_round_tick) ==
    t >= last_round_tick - Lookback /\ t <= last_round_tick

\* the team names in the order in which pandas sorts them
TeamOrder == << "CT", "TERRORIST" >>

\* Series.mode()[0]: the most frequent value, the first in sorted order
\* among several
mode(values) ==
    LET count(v) == Cardinality({i \in DOMAIN values : values[i] = v})
        best == {values[i] : i \in {j \in DOMAIN values :
                    \A k \in DOMAIN values : count(values[k]) <= count(values[j])}}
    IN  TeamOrder[CHOOSE k \in DOMAIN TeamOrder :
                     /\ TeamOrder[k] \in best
                     /\ \A j \in 1..(k - 1) : TeamOrder[j] \notin best]

\* our_team = 'CT' if team == 'CT' else 'T'
side_of(team) == IF team = "CT" THEN "CT" ELSE "T"

\* the rows of ticks_df of the final-round window
relevant_ticks(ticks, last_round_tick) ==
    LET Relevant(row) == InWindow(row.tick, last_round_tick)
    IN  SelectSeq(ticks.rows, Relevant)

\* the rows of the window that name a tracked player, in order
tracked_ticks(ticks, last_round_tick) ==
    LET Ours(row) == row.name # EmptyStr /\ IsRequired(row.name)
    IN  SelectSeq(relevant_ticks(ticks, last_round_tick), Ours)

\* whether the loop over relevant_ticks['name'].unique() sets our_team
HasOurTeam(ticks, last_round_tick) ==
    /\ tracked_ticks(ticks, last_round_tick) # <<>>
    /\ "team_name" \in ticks.columns

\* our_team: the side of the first tracked player of the window
our_team(ticks, last_round_tick) ==
    LET player_name == Head(tracked_ticks(ticks, last_round_tick)).name
        Theirs(row) == row.name = player_name
        player_ticks == SelectSeq(relevant_ticks(ticks, last_round_tick), Theirs)
    IN  side_of(mode([i \in DOMAIN player_ticks |-> player_ticks[i].team_name]))

\* whether the block that reads ticks_df runs without an exception
TicksReadable(ticks) ==
    IsDataFrame(ticks) /\ {"tick", "name"} \subseteq ticks.columns

\* the except branch: won = 1 if ct_wins > t_wins else 0
round_count_won(rounds) ==
    LET CT(row) == row.winner = "CT"
        T(row)  == row.winner = "T"
    IN  IF Len(SelectSeq(rounds.rows, CT)) > Len(SelectSeq(rounds.rows, T))
        THEN 1 ELSE 0

\* won, as parse_map_stats decides it
won_of(round_ends, ticks) ==
    LET rounds == IF IsDataFrame(round_ends) THEN round_ends
                  ELSE DataFrame({}, <<>>)
        last_round == rounds.rows[Len(rounds.rows)]
    IN  IF Empty(rounds) \/ ~({"winner", "tick"} \subseteq rounds.columns)
        THEN 0
        ELSE IF ~TicksReadable(ticks)
        THEN round_count_won(rounds)
        ELSE IF HasOurTeam(ticks, last_round.tick)
        THEN IF last_round.winner = our_team(ticks, last_round.tick)
             THEN 1 ELSE 0
        ELSE 0

Digits == << "0", "1", "2", "3", "4", "5", "6", "7", "8", "9" >>

\* \d
IsDigit(c) == \E i \in DOMAIN Digits : Digits[i] = c

\* the places of the underscores in YYYY_MM_DD_HH_MM
Delimiters == {5, 8, 11, 14}

\* the length of YYYY_MM_DD_HH_MM
PatternLen == 16

\* re.match(r'(\d{4})_(\d{2})_(\d{2})_(\d{2})_(\d{2})', filename): the
\* pattern has to match at the start of the name
match(name) ==
    /\ Len(name) >= PatternLen
    /\ \A i \in 1..PatternLen :
          IF i \in Delimiters THEN name[i] = "_" ELSE IsDigit(name[i])

\* f"{year}-{month}-{day} {hour}:{minute}:00"
date_time_from_name(name) ==
    SubSeq(name, 1, 4) \o <<"-">> \o SubSeq(name, 6, 7) \o <<"-">>
      \o SubSeq(name, 9, 10) \o <<" ">> \o SubSeq(name, 12, 13) \o <<":">>
      \o SubSeq(name, 15, 16) \o <<":", "0", "0">>

\* %H, %M, %S: a number below 100 in two digits
TwoDigits(n) == << Digits[(n \div 10) + 1], Digits[(n % 10) + 1] >>

\* the day on which the recordings were last written
FileDay == << "2", "0", "2", "4", "-", "0", "5", "-", "0", "2" >>

\* datetime.fromtimestamp(mod_time).strftime('%Y-%m-%d %H:%M:%S'), for a
\* modification time given in seconds after the start of FileDay
strftime(mod_time) ==
    FileDay \o <<" ">> \o TwoDigits(mod_time \div 3600) \o <<":">>
      \o TwoDigits((mod_time \div 60) % 60) \o <<":">>
      \o TwoDigits(mod_time % 60)

\* date_time, as parse_map_stats decides it
date_time_of(name, mod_time) ==
    IF match(name) THEN date_time_from_name(name) ELSE strftime(mod_time)

\* parse_map_stats: the dict it returns
parse_map_stats(round_ends, ticks, name, mod_time) ==
    [map_name |-> "de_dust2",
     date_time |-> date_time_of(name, mod_time),
     won |-> won_of(round_ends, ticks)]

(***************************************************************************)
(* parse_map_stats alone on a match of three rounds, the last one ending   *)
(* at tick 2000, with up to MaxSamples side samples or no side table.      *)
(***************************************************************************)
MaxSamples == 3

SampleEvents ==
    { Sample(1500, nifty, "CT"), Sample(1500, nifty, "TERRORIST"),
      Sample(500, nifty, "CT"),
      Sample(1500, upper(Dybbis), "TERRORIST"), Sample(2000, upper(Dybbis), "CT"),
      Sample(1500, Bot, "CT") }

TickTables ==
    { DataFrame(TickColumns, rows) : rows \in SeqUpTo(SampleEvents, MaxSamples) }
    \cup { NoTable }

ThreeRounds ==
    { DataFrame(RoundColumns,
                << RoundEnd(600, 1, w[1]), RoundEnd(1300, 2, w[2]),
                   RoundEnd(2000, 3, w[3]) >>) :
        w \in [1..3 -> {"CT", "T"}] }

MatchFinal == << "m", "a", "t", "c", "h", "_", "f", "i", "n", "a", "l" >>

InitMap ==
    /\ PipelineIdle
    /\ kills_df = <<>>
    /\ damage_df = <<>>
    /\ round_end_df \in ThreeRounds
    /\ ticks_df \in TickTables
    /\ filename = MatchFinal
    /\ mtime = 0
    /\ tick = <<>>
    /\ parser_pc = "map"
    /\ ret = <<>>

\* map_stats = parser.parse_map_stats()
ParseMap ==
    /\ parser_pc = "map"
    /\ ret' = parse_map_stats(round_end_df, ticks_df, filename, mtime)
    /\ parser_pc' = "done"
    /\ UNCHANGED <<sinkVars, workerVars, histVars, cleanupVars, securityVars,
                   rosterVars,
                   kills_df,
                   damage_df, round_end_df, ticks_df, filename, mtime, tick>>

SpecMap == InitMap /\ [][ParseMap]_vars

(***************************************************************************)
(* The identity of a match: get_match_id and the date_time of              *)
(* parse_map_stats on recording names built around YYYY_MM_DD_HH_MM, and   *)
(* on match_final.                                                         *)
(***************************************************************************)
Str2(a, b) == << a, b >>

\* names: an optional x in front, a year, month, day, hour and minute with
\* their delimiters, and an optional tail
DateLikeNames ==
    { pre \o year \o d1 \o month \o <<"_">> \o Str2("0", "1") \o <<"_">>
        \o Str2("2", "0") \o <<"_">> \o minute \o tail :
        pre \in { <<>>, <<"x">> },
        year \in { <<"2", "0", "2", "4">>, <<"2", "0", "x", "4">> },
        d1 \in { <<"_">>, <<"-">> },
        month \in { Str2("0", "5"), <<"5">> },
        minute \in { Str2("3", "0"), <<"3">> },
        tail \in { <<>>, <<"_", "x">>, <<"9">> } }

RecordingNames == DateLikeNames \cup { MatchFinal }

\* modification times: midnight, and 20:30:05
ModTimes == { 0, (20 * 3600) + (30 * 60) + 5 }

InitIdentity ==
    /\ PipelineIdle
    /\ kills_df = <<>>
    /\ damage_df = <<>>
    /\ round_end_df = NoTable
    /\ ticks_df = NoTable
    /\ filename \in RecordingNames
    /\ mtime \in ModTimes
    /\ tick = <<>>
    /\ parser_pc = "identity"
    /\ ret = <<>>

\* match_id = parser.get_match_id() and map_stats = parser.parse_map_stats()
ParseIdentity ==
    /\ parser_pc = "identity"
    /\ ret' = [match_id |-> get_match_id(filename),
               map_stats |-> parse_map_stats(round_end_df, ticks_df,
                                             filename, mtime)]
    /\ parser_pc' = "done"
    /\ UNCHANGED <<sinkVars, workerVars, histVars, cleanupVars, securityVars,
                   rosterVars,
                   kills_df,
                   damage_df, round_end_df, ticks_df, filename, mtime, tick>>

SpecIdentity == InitIdentity /\ [][ParseIdentity]_vars

(***************************************************************************)
(* Properties of the derivation.                                           *)
(***************************************************************************)
\* the rows of a table whose field col names the player, in any letter case
RowsOfPlayer(rows, col, player) ==
    LET Names(row) == SameName(row[col], player) IN SelectSeq(rows, Names)

\* the damage events a table holds: none when the table is absent or lacks
\* the attacker or the amount
DamageEvents(damage) ==
    IF IsDataFrame(damage)
       /\ {"attacker_name", "dmg_health"} \subseteq damage.columns
    THEN damage.rows
    ELSE <<>>

\* C11: every stats record holds, for its player, the number of kill events
\* whose attacker is the player, the number whose victim is the player, the
\* number whose attacker is the player and that are headshots, and the sum
\* of the amounts of the damage events whose attacker is the player, names
\* being compared without regard to letter case.
C11_StatsAggregator ==
    parser_pc = "done"
    => \A p \in DOMAIN ret :
          LET kills_p == RowsOfPlayer(kills_df.rows, "attacker_name", p)
              IsHeadshot(row) == row.headshot
          IN  /\ ret[p].kills_total = Len(kills_p)
              /\ ret[p].deaths_total
                   = Len(RowsOfPlayer(kills_df.rows, "user_name", p))
              /\ ret[p].headshot_kills_total
                   = Len(SelectSeq(kills_p, IsHeadshot))
              /\ ret[p].dmg
                   = Sum(RowsOfPlayer(DamageEvents(damage_df),
                                      "attacker_name", p), "dmg_health")

\* C12: parse_player_stats returns one record for each tracked roster
\* member, under whatever spelling, and no record for anyone else.
C12_OneRecordPerPlayer ==
    parser_pc = "done"
    => /\ \A r \in REQUIRED_PLAYERS :
             Cardinality({p \in DOMAIN ret : SameName(p, r)}) = 1
       /\ \A p \in DOMAIN ret : \E r \in REQUIRED_PLAYERS : SameName(p, r)

\* the counts of a record that do not come from the damage table
KillCounts(rec) ==
    <<rec.kills_total, rec.deaths_total, rec.headshot_kills_total,
      rec.ace_rounds_total, rec.quad_rounds_total, rec.triple_rounds_total>>

C14_UtilityDamage ==
    parser_pc = "done"
    => \A p \in DOMAIN ret :
          LET Own(row)   == row.attacker_name = p
              own        == SelectSeq(DamageEvents(damage_df), Own)
              Known(row) == /\ "weapon" \in damage_df.columns
                            /\ row.weapon \in utility_weapons
              Other(row) == ~Known(row)
          IN  /\ ret[p].utility_dmg = Sum(SelectSeq(own, Known), "dmg_health")
              /\ ret[p].dmg = ret[p].utility_dmg
                                + Sum(SelectSeq(own, Other), "dmg_health")

\* C14 witness: a grenade for 50 and a rifle for 40 give utility_dmg 50 and
\* dmg 90.
C14_Witness ==
    /\ parser_pc = "done"
    /\ damage_df = DataFrame(DamageColumns,
                     << Hurt(nifty, 50, "hegrenade"), Hurt(nifty, 40, "ak47") >>)
    /\ ret[nifty].utility_dmg = 50
    /\ ret[nifty].dmg = 90

\* the round the boundaries give a timestamp: that of the first boundary
\* ending at or after it, that of the last boundary when there is none
RoundOf(rows, t) ==
    LET later == {i \in DOMAIN rows : rows[i].tick >= t}
    IN  IF later = {}
        THEN rows[Len(rows)].round
        ELSE rows[CHOOSE i \in later : \A j \in later : i <= j].round

\* C15: get_round_for_tick returns the round number of the first boundary
\* whose end timestamp is greater than or equal to the timestamp, and the
\* last round number when the timestamp exceeds every boundary's end.
C15_RoundOf ==
    parser_pc = "done"
    => \A k \in {1, 2} : ret[k] = RoundOf(round_end_df.rows, tick[k])

\* C15 witness: one timestamp within the first boundary, one past the last
\* of several boundaries.
C15_Witness ==
    /\ parser_pc = "done"
    /\ Len(round_end_df.rows) >= 2
    /\ tick[1] <= round_end_df.rows[1].tick
    /\ ret[1] = round_end_df.rows[1].round
    /\ tick[2] > round_end_df.rows[Len(round_end_df.rows)].tick
    /\ ret[2] = round_end_df.rows[Len(round_end_df.rows)].round

\* C16: for two timestamps t1 <= t2, the round of t1 is not after the
\* round of t2.
C16_RoundOfMonotonic ==
    (parser_pc = "done" /\ tick[1] <= tick[2]) => ret[1] <= ret[2]

\* C16 witness: a later timestamp, past the last boundary, in a later round.
C16_Witness ==
    /\ parser_pc = "done"
    /\ tick[1] < tick[2]
    /\ tick[2] > round_end_df.rows[Len(round_end_df.rows)].tick
    /\ ret[1] < ret[2]

\* the tier of a round in which a player made n kills
Tier(n) ==
    IF n >= 5 THEN "ace"
    ELSE IF n = 4 THEN "quad"
    ELSE IF n = 3 THEN "triple"
    ELSE "none"

\* the number of kill events of player p (as the record counts them) that
\* the boundaries put in round r
KillsInRound(p, r) ==
    Cardinality({i \in DOMAIN kills_df.rows :
                    /\ kills_df.rows[i].attacker_name = p
                    /\ RoundOf(round_end_df.rows, kills_df.rows[i].tick) = r})

RoundNumbers == {round_end_df.rows[i].round : i \in DOMAIN round_end_df.rows}

\* C17: for every record, ace_rounds_total, quad_rounds_total and
\* triple_rounds_total are the numbers of rounds whose kill count is at
\* least 5, exactly 4 and exactly 3; every count is in exactly one of the
\* tiers ace, quad, triple, none, so no round is counted twice.
C17_MultiKillTiers ==
    parser_pc = "done"
    => /\ \A p \in DOMAIN ret :
             LET InTier(t) ==
                     Cardinality({r \in RoundNumbers :
                                     Tier(KillsInRound(p, r)) = t})
             IN  /\ ret[p].ace_rounds_total = InTier("ace")
                 /\ ret[p].quad_rounds_total = InTier("quad")
                 /\ ret[p].triple_rounds_total = InTier("triple")
                 /\ ret[p].ace_rounds_total + ret[p].quad_rounds_total
                      + ret[p].triple_rounds_total + InTier("none")
                      = Cardinality(RoundNumbers)
       /\ \A n \in 0..(MaxRoundKills + 2) :
             Cardinality({t \in {"ace", "quad", "triple", "none"} :
                             \/ t = "ace" /\ IsAce(n)
                             \/ t = "quad" /\ IsQuad(n)
                             \/ t = "triple" /\ IsTriple(n)
                             \/ t = "none" /\ n <= 2}) = 1

\* C17 witness: five kills in the first round and one in the second: one
\* ace round, no quad or triple round.
C17_Witness ==
    /\ parser_pc = "done"
    /\ round_end_df = TwoRounds
    /\ ret[nifty].kills_total = 6
    /\ ret[nifty].ace_rounds_total = 1
    /\ ret[nifty].quad_rounds_total = 0
    /\ ret[nifty].triple_rounds_total = 0

\* the samples of the final-round window that name a tracked player
WindowSamples ==
    LET last == round_end_df.rows[Len(round_end_df.rows)].tick
    IN  {i \in DOMAIN ticks_df.rows :
            /\ ticks_df.rows[i].tick >= last - Lookback
            /\ ticks_df.rows[i].tick <= last
            /\ \E r \in REQUIRED_PLAYERS : SameName(ticks_df.rows[i].name, r)}

\* C18: when a tracked player has side samples in the window that ends with
\* the last round, the first such player's most frequent side there is the
\* roster's side, and won is 1 exactly when it is the side that won the
\* last round.
C18_TeamSide ==
    (parser_pc = "done" /\ IsDataFrame(ticks_df) /\ WindowSamples # {})
    => LET first == CHOOSE i \in WindowSamples : \A j \in WindowSamples : i <= j
           player == ticks_df.rows[first].name
           times(team) ==
               Cardinality({i \in WindowSamples :
                               /\ ticks_df.rows[i].name = player
                               /\ ticks_df.rows[i].team_name = team})
           winner == round_end_df.rows[Len(round_end_df.rows)].winner
       IN  /\ times("CT") > times("TERRORIST")
              => ret.won = (IF winner = "CT" THEN 1 ELSE 0)
           /\ times("TERRORIST") > times("CT")
              => ret.won = (IF winner = "T" THEN 1 ELSE 0)

\* C18 witness: the first tracked player of the window is seen twice as CT
\* and once as TERRORIST, CT wins the last round, and the match counts as
\* won.
C18_Witness ==
    /\ parser_pc = "done"
    /\ ticks_df = DataFrame(TickColumns,
                     << Sample(1500, nifty, "TERRORIST"),
                        Sample(1500, nifty, "CT"),
                        Sample(1500, nifty, "CT") >>)
    /\ round_end_df.rows[3].winner = "CT"
    /\ ret.won = 1

\* C19: when there is no side sample of a tracked player, the side table
\* missing or holding none in the final-round window, won is 1 exactly when
\* CT won more rounds of the match than T.
C19_SideFallback ==
    (parser_pc = "done" /\ (~IsDataFrame(ticks_df) \/ WindowSamples = {}))
    => LET wins(side) ==
               Cardinality({i \in DOMAIN round_end_df.rows :
                               round_end_df.rows[i].winner = side})
       IN  ret.won = (IF wins("CT") > wins("T") THEN 1 ELSE 0)

\* the name is YYYY_MM_DD_HH_MM and nothing else
StrictDateName(name) ==
    /\ Len(name) = 16
    /\ \A i \in 1..16 :
          IF i \in {5, 8, 11, 14} THEN name[i] = "_"
          ELSE name[i] \in {"0", "1", "2", "3", "4", "5", "6", "7", "8", "9"}

\* the name without its underscores
Stripped(name) ==
    LET Kept(c) == c # "_" IN SelectSeq(name, Kept)

\* C20: the identifier is always the name with the delimiters removed; the
\* timestamp is 'YYYY-MM-DD HH:MM:00' read from the name exactly when the
\* name is YYYY_MM_DD_HH_MM and nothing else, and the file's modification
\* time for every other name, also one that only begins with the pattern.
C20_MatchIdentity ==
    parser_pc = "done"
    => /\ ret.match_id = Stripped(filename)
       /\ IF StrictDateName(filename)
          THEN ret.map_stats.date_time
                 = << filename[1], filename[2], filename[3], filename[4], "-",
                      filename[6], filename[7], "-", filename[9], filename[10],
                      " ", filename[12], filename[13], ":",
                      filename[15], filename[16], ":", "0", "0" >>
          ELSE ret.map_stats.date_time = strftime(mtime)


(***************************************************************************)
(* Two recordings of one folder, whose names differ, each processed by one *)
(* run of main() against an empty database.                                *)
(***************************************************************************)
\* a recording whose name has no underscore
Demo1Flat == <<"m","1">>

RecordingStems == {Demo1, Demo1Flat, Demo2}

InitNames ==
    /\ InitSink
    /\ InitLocals
    /\ SecurityIdle
    /\ \E a \in RecordingStems : \E b \in RecordingStems \ {a} :
          demo_files = [w \in Workers |->
                           IF w = 1 THEN <<a>> ELSE IF w = 2 THEN <<b>> ELSE <<>>]
    /\ \E api \in BOOLEAN : use_api = [w \in Workers |-> api]
    /\ RosterIdle
    /\ ParserIdle

SpecNames == InitNames /\ [][Next]_vars

(***************************************************************************)
(* The deferred cleanup: one run of main() over two recordings, with the   *)
(* clock advancing and the cleanup threads waking up.                      *)
(***************************************************************************)
MaxClock == 4

\* variant: a thread that deletes without sleeping
SleepSkipped(t, at) == TRUE

\* time.sleep(delay_hours * 3600) has returned: a sleep lasts at least the
\* time asked for
SleepOver(t, at) == at >= t.wake

\* os.path.exists(demo_path)
exists(path) == path \notin removed

\* cleanup(), after its sleep: if os.path.exists(demo_path):
\* os.remove(demo_path); the thread ends
Cleanup(t) ==
    /\ t \in cleanup_thread
    /\ SleepOver(t, clock)
    /\ removed' = IF exists(t.path) THEN removed \cup {t.path} ELSE removed
    /\ cleanup_thread' = cleanup_thread \ {t}
    /\ UNCHANGED <<sinkVars, rosterVars, parserVars, securityVars,
                   demo_files, pc, use_api, demo_path, players, match_id,
                   player_stats, map_stats, idx, status, success, outcome,
                   successful, skipped, failed, scheduled, ran, attempts,
                   cause, db0, cleanup, clock>>

\* an hour passes
Tick ==
    /\ clock < MaxClock
    /\ clock' = clock + 1
    /\ UNCHANGED <<sinkVars, rosterVars, parserVars, securityVars,
                   demo_files, pc, use_api, demo_path, players, match_id,
                   player_stats, map_stats, idx, status, success, outcome,
                   successful, skipped, failed, scheduled, ran, attempts,
                   cause, db0, cleanup, cleanup_thread, removed>>

\* main() returns and the process ends: its daemon threads end with it
MainExit ==
    /\ \A w \in Workers : pc[w] = "idle" /\ demo_files[w] = <<>>
    /\ cleanup_thread # {}
    /\ cleanup_thread' = {}
    /\ UNCHANGED <<sinkVars, rosterVars, parserVars, securityVars,
                   demo_files, pc, use_api, demo_path, players, match_id,
                   player_stats, map_stats, idx, status, success, outcome,
                   successful, skipped, failed, scheduled, ran, attempts,
                   cause, db0, cleanup, removed, clock>>

InitCleanup ==
    /\ \E st \in InitialStores : db = [s \in Sinks |-> st]
    /\ db0 = db
    /\ lock = [s \in Sinks |-> 0]
    /\ txn = [w \in Workers |-> EmptyTxn]
    /\ InitLocals
    /\ SecurityIdle
    /\ \E a \in RecordingStems : \E b \in RecordingStems \ {a} :
          demo_files = [w \in Workers |-> IF w = 1 THEN <<a, b>> ELSE <<>>]
    /\ \E api \in BOOLEAN : use_api = [w \in Workers |-> api]
    /\ RosterIdle
    /\ ParserIdle

NextCleanup ==
    \/ Next
    \/ \E t \in cleanup_thread : Cleanup(t)
    \/ Tick
    \/ MainExit

SpecCleanup == InitCleanup /\ [][NextCleanup]_vars

(***************************************************************************)
(* Requests and configurations of the security middleware.                 *)
(***************************************************************************)
Header(scheme, token) == scheme \o <<Space>> \o token

Bearer == <<"B","e","a","r","e","r">>
Basic == <<"B","a","s","i","c">>
WrongToken == <<"t","x">>
NonAsciiToken == <<"t", NonAscii>>

ValidHeaders ==
    { Header(Bearer, api_token), Header(bearer, api_token),
      Header(upper(Bearer), api_token),
      Bearer \o <<Space, Space>> \o api_token }

AuthHeaders ==
    ValidHeaders \cup
    { NoHeader, Header(Bearer, WrongToken), Header(Basic, api_token),
      api_token, Header(Bearer, api_token) \o <<Space, "x">>,
      Header(Bearer, NonAsciiToken) }

\* 10.0.0.1, in the private range 10.0.0.0/8
PrivateIP == <<"1","0",".","0",".","0",".","1">>
\* 8.8.8.8 and 1.2.3.4, public addresses
PublicIP == <<"8",".","8",".","8",".","8">>
OtherPublicIP == <<"1",".","2",".","3",".","4">>
\* 172.217.0.1, a public address: the private range is 172.16.0.0/12
Public172IP == <<"1","7","2",".","2","1","7",".","0",".","1">>

Replies ==
    { Reply(TRUE, 0, "", NoCountry),
      Reply(FALSE, 500, "", NoCountry),
      Reply(FALSE, 200, "fail", NoCountry),
      Reply(FALSE, 200, "success", NoCountry),
      Reply(FALSE, 200, "success", "NO"),
      Reply(FALSE, 200, "success", "SE") }

\* what the constructor stores
Config(kind, token_on, geo_on, exempt_arg, allowed, ttl) ==
    [kind |-> kind, token_auth_enabled |-> token_on,
     geolocation_enabled |-> geo_on, exempt_arg |-> exempt_arg,
     exempt_paths |-> ExemptPaths(kind, exempt_arg),
     allowed_countries |-> allowed, cache_ttl |-> ttl]

Request(path, auth, ip) == [path |-> path, auth |-> auth, ip |-> ip]

SecurityStart ==
    /\ geo_cache = <<>>
    /\ now = 0
    /\ request = [r \in Connections |-> Idle]
    /\ last_set = <<>>
    /\ last_code = <<>>
    /\ cache_op = [op |-> "none", ip |-> <<>>, value |-> NoCountry]

ProcessingIdle ==
    /\ InitSink
    /\ InitLocals
    /\ demo_files = [w \in Workers |-> <<>>]
    /\ use_api = [w \in Workers |-> FALSE]
    /\ RosterIdle
    /\ ParserIdle

NextSecurity ==
    \/ \E r \in Connections :
          \/ Arrive(r)
          \/ Dispatch(r)
          \/ \E reply \in Replies : LookupReturns(r, reply)
          \/ Forget(r)
    \/ TimePasses

(***************************************************************************)
(* Token authentication: one request with any Authorization header, to     *)
(* the token middleware or to the combined one with both checks enabled.   *)
(***************************************************************************)
InitAuth ==
    /\ ProcessingIdle
    /\ SecurityStart
    /\ \E kind \in {"token", "combined"} :
          config = Config(kind, TRUE, kind = "combined", NotGiven, <<"NO">>, MaxTtl)
    /\ \E auth \in AuthHeaders : \E ip \in {PrivateIP, PublicIP} :
          incoming = << Request("/api/upload", auth, ip) >>

SpecAuth == InitAuth /\ [][NextSecurity]_vars

(***************************************************************************)
(* Bypass: one request to a middleware that is enabled or not, built with  *)
(* or without a list of exempt paths.                                      *)
(***************************************************************************)
ExemptArgs == {NotGiven, Given({}), Given({"/custom-public"})}

BypassConfigs ==
    { Config("token", on, FALSE, arg, <<"NO">>, MaxTtl) :
        on \in BOOLEAN, arg \in ExemptArgs }
    \cup { Config("geo", FALSE, on, NotGiven, <<"NO">>, MaxTtl) : on \in BOOLEAN }
    \cup { Config("combined", TRUE, TRUE, arg, <<"NO">>, MaxTtl) : arg \in ExemptArgs }

InitBypass ==
    /\ ProcessingIdle
    /\ SecurityStart
    /\ config \in BypassConfigs
    /\ \E path \in {"/", "/health", "/custom-public", "/api/upload"} :
       \E auth \in {NoHeader, Header(Bearer, api_token)} :
       \E ip \in {PrivateIP, PublicIP} :
          incoming = << Request(path, auth, ip) >>

SpecBypass == InitBypass /\ [][NextSecurity]_vars

(***************************************************************************)
(* Geolocation: two requests, one after the other or at the same time, to  *)
(* the geolocation middleware or to the combined one without token check.  *)
(***************************************************************************)
GeoConfigs ==
    { Config(kind, FALSE, TRUE, NotGiven, allowed, ttl) :
        kind \in {"geo", "combined"}, allowed \in {<<"NO">>, <<"SE">>},
        ttl \in 1..MaxTtl }

InitGeo ==
    /\ ProcessingIdle
    /\ SecurityStart
    /\ config \in GeoConfigs
    /\ \E ip1 \in {PrivateIP, PublicIP, Public172IP} :
       \E ip2 \in {PublicIP, OtherPublicIP} :
          incoming = << Request("/api/upload", NoHeader, ip1),
                        Request("/api/upload", NoHeader, ip2) >>

SpecGeo == InitGeo /\ [][NextSecurity]_vars

(***************************************************************************)
(* The cache alone, its methods called in any order as time passes.        *)
(***************************************************************************)
InitCache ==
    /\ ProcessingIdle
    /\ SecurityStart
    /\ \E ttl \in 0..MaxTtl :
          config = Config("geo", FALSE, TRUE, NotGiven, <<"NO">>, ttl)
    /\ incoming = <<>>

NextCache ==
    \/ \E ip \in {PublicIP, OtherPublicIP} :
          \/ \E country_code \in {"NO", "SE"} : CacheSet(ip, country_code)
          \/ CacheGet(ip)
    \/ ClearExpired
    \/ TimePasses

SpecCache == InitCache /\ [][NextCache]_vars

(***************************************************************************)
(* Properties of the match identifier across recordings, of the deferred   *)
(* cleanup and of the API's security middleware.                           *)
(***************************************************************************)
\* C21: two recordings whose names differ get different match identifiers,
\* and no invocation is answered AlreadyExists when the only other rows the
\* database can hold are those of a recording with another name.
C21_NoCollision ==
    /\ \A v \in Workers : \A w \in Workers :
          ( /\ "get_match_id" \in ran[v]
            /\ "get_match_id" \in ran[w]
            /\ demo_path[v] # demo_path[w] )
          => match_id[v] # match_id[w]
    /\ \A w \in Workers : outcome[w] # "AlreadyExists"

\* the step is the end of worker w's parse_demo_file call
Returns(w) == pc[w] # "returned" /\ pc'[w] = "returned"

\* C22: a step that starts a cleanup thread is the end of a parse_demo_file
\* call whose upload ended as Delivered with cleanup enabled; the thread is
\* for that call's recording and sleeps the fixed delay from then on, and
\* the call returns with the thread asleep and the file in place.  A step
\* that deletes a recording is the step of a thread for that recording whose
\* sleep is over, at least the delay after the scheduling.
C22_DeferredCleanup ==
    /\ [][\A t \in cleanup_thread' \ cleanup_thread :
             \E w \in Workers :
                /\ Returns(w)
                /\ success[w] /\ outcome[w] = "Delivered" /\ cleanup'[w]
                /\ t.path = demo_path[w]
                /\ t.wake = clock + CleanupDelay
                /\ t.wake > clock'
                /\ exists(t.path)']_vars
    /\ [][\A f \in removed' \ removed :
             \E t \in cleanup_thread \ cleanup_thread' :
                /\ t.path = f
                /\ f \in scheduled
                /\ clock >= t.wake
                /\ clock >= CleanupDelay]_vars
    /\ [][\A w \in Workers :
             (Returns(w) /\ outcome'[w] # "Delivered")
             => /\ cleanup_thread' = cleanup_thread
                /\ scheduled' = scheduled]_vars

\* C22 witness: a recording was delivered with cleanup enabled, the delay
\* has passed and the cleanup thread has deleted the file.
C22_Witness ==
    \E f \in scheduled : ~exists(f) /\ clock >= CleanupDelay

\* the header has exactly two parts, the scheme Bearer in any letter case
\* and the configured token
HasValidToken(auth_header) ==
    LET parts == split(auth_header)
    IN  /\ Len(parts) = 2
        /\ upper(parts[1]) = upper(Bearer)
        /\ parts[2] = api_token

\* the requests whose dispatch has ended
Ended == {request[r] : r \in {c \in Connections : request[c].pc = "done"}}

\* C23: with the token check enabled and a path that is not exempt, a
\* request that no geolocation check stands in the way of reaches the
\* handler exactly when its Authorization header is valid, and every request
\* whose header is not valid is answered 401 without the handler.
C23_TokenAuth ==
    \A q \in Ended :
        (config.token_auth_enabled /\ q.path \notin config.exempt_paths)
        => /\ (config.kind = "token" \/ is_local_ip(q.ip))
              => (q.called_next <=> HasValidToken(q.auth))
           /\ ~HasValidToken(q.auth)
              => (q.status_code = 401 /\ ~q.called_next)

\* the list of exempt paths the middleware was configured with
ConfiguredExemptPaths ==
    IF config.exempt_arg.given
    THEN config.exempt_arg.paths
    ELSE DefaultExemptPaths(config.kind)

\* the middleware was built with enabled=False
Disabled ==
    \/ config.kind = "token" /\ ~config.token_auth_enabled
    \/ config.kind = "geo" /\ ~config.geolocation_enabled

\* C24: a request to a disabled middleware, or for a path of the configured
\* exempt list, reaches the handler with no token check and no geolocation
\* check; a request for any other path reaches the handler only through the
\* checks of the middleware.
C24_Bypass ==
    \A q \in Ended :
        /\ (Disabled \/ q.path \in ConfiguredExemptPaths)
           => (q.called_next /\ q.status_code = 0 /\ ~q.looked_up)
        /\ (~Disabled /\ q.path \notin ConfiguredExemptPaths /\ q.called_next)
           => /\ config.token_auth_enabled => HasValidToken(q.auth)
              /\ config.geolocation_enabled
                 => \/ is_local_ip(q.ip)
                    \/ Allowed(q.country_code, config.allowed_countries)

\* the loopback and private (RFC 1918) addresses among the clients
PrivateIPs == {PrivateIP}

\* C25: with the geolocation check enabled and a path that is not exempt, a
\* request reaches the handler exactly when its client address is local or
\* private or the country resolved for it is an allowed one; every other
\* request is answered 403.
C25_GeoGate ==
    \A q \in Ended :
        (config.geolocation_enabled /\ q.path \notin config.exempt_paths)
        => /\ q.called_next
              <=> \/ q.ip \in PrivateIPs
                  \/ Allowed(q.country_code, config.allowed_countries)
           /\ ~q.called_next => q.status_code = 403

\* what get(ip) has to return: the country of the latest set for ip when
\* that set is less than ttl_seconds old
Expected(ip) ==
    IF ip \in DOMAIN last_set /\ now - last_set[ip].timestamp < config.cache_ttl
    THEN last_set[ip].country_code
    ELSE NoCountry

\* C26: get(ip) returns the country of the latest set for ip when that set
\* is less than ttl_seconds old and None otherwise; a get that finds an
\* expired entry removes it and nothing else; clear_expired removes exactly
\* the entries that are at least ttl_seconds old.
C26_CacheExpiry ==
    /\ [](\A ip \in {PublicIP, OtherPublicIP} :
             get(geo_cache, ip, now, config.cache_ttl).value = Expected(ip))
    /\ [][cache_op'.op = "get"
          => /\ cache_op'.value = Expected(cache_op'.ip)
             /\ geo_cache' =
                   IF /\ cache_op'.ip \in DOMAIN geo_cache
                      /\ now - geo_cache[cache_op'.ip].timestamp >= config.cache_ttl
                   THEN Remove(geo_cache, {cache_op'.ip})
                   ELSE geo_cache]_vars
    /\ [][cache_op'.op = "clear"
          => /\ DOMAIN geo_cache' =
                   {ip \in DOMAIN geo_cache :
                       now - geo_cache[ip].timestamp < config.cache_ttl}
             /\ \A ip \in DOMAIN geo_cache' : geo_cache'[ip] = geo_cache[ip]]_vars

\* C26 witness: a get found an entry that had expired, returned None and
\* removed it.
C26_Witness ==
    /\ cache_op.op = "get"
    /\ cache_op.value = NoCountry
    /\ cache_op.ip \in DOMAIN last_set
    /\ cache_op.ip \notin DOMAIN geo_cache
    /\ config.cache_ttl > 0

\* the step starts the country lookup of connection r
StartsLookup(r) == request[r].pc # "lookup" /\ request'[r].pc = "lookup"

\* C27: a lookup is started for a request only when the cache holds no
\* unexpired entry for its address, and never within ttl_seconds of a lookup
\* for that address that returned a country code.
C27_LookupOnlyOnMiss ==
    [][\A r \in Connections :
          StartsLookup(r)
          => LET ip == request[r].ip
             IN  /\ ~( /\ ip \in DOMAIN geo_cache
                       /\ now - geo_cache[ip].timestamp < config.cache_ttl )
                 /\ ~( /\ ip \in DOMAIN last_code
                       /\ now - last_code[ip] < config.cache_ttl )]_vars

\* C27 witness: after a lookup for its address returned a country code, a
\* request was decided from the cache, with no lookup of its own.
C27_Witness ==
    \E q \in Ended :
        /\ ~q.looked_up
        /\ q.ip \in DOMAIN last_code
        /\ q.country_code # NoCountry

\* C28: a request whose country lookup failed (an exception, a response
\* that is not 200, a status that is not success) is not blocked.
C28_FailOpen ==
    \A q \in Ended :
        (q.looked_up /\ q.failure # "")
        => (q.called_next /\ q.status_code # 403)

\* C29: in the combined middleware with both checks enabled, a request for
\* a path that is not exempt whose token is not valid is answered 401 with no
\* lookup, no change of the cache and no call of the handler, and the
\* handler is called only for a valid token and an address that is local or
\* of an allowed country.
C29_TokenBeforeGeo ==
    /\ [](\A q \in Ended :
             (config.kind = "combined" /\ q.path \notin config.exempt_paths)
             => /\ ~HasValidToken(q.auth)
                   => (q.status_code = 401 /\ ~q.looked_up /\ ~q.called_next)
                /\ q.called_next
                   => /\ HasValidToken(q.auth)
                      /\ \/ is_local_ip(q.ip)
                         \/ Allowed(q.country_code, config.allowed_countries))
    /\ [][\A r \in Connections :
             ( /\ config.kind = "combined"
               /\ request[r].pc = "received"
               /\ request'[r].pc # "received"
               /\ ~HasValidToken(request[r].auth) )
             => /\ geo_cache' = geo_cache
                /\ request'[r].pc = "done"]_vars

\* C30: in every record of parse_player_stats the kills that the multi-kill
\* rounds account for are no more than the kill total.
C30_MultiKillsWithinKills ==
    parser_pc = "done"
    => \A p \in DOMAIN ret :
          5 * ret[p].ace_rounds_total + 4 * ret[p].quad_rounds_total
            + 3 * ret[p].triple_rounds_total <= ret[p].kills_total

\* C30 witness: a record with a multi-kill round and kills outside it.
C30_Witness ==
    /\ parser_pc = "done"
    /\ \E p \in DOMAIN ret :
          /\ ret[p].ace_rounds_total + ret[p].quad_rounds_total
               + ret[p].triple_rounds_total >= 1
          /\ 5 * ret[p].ace_rounds_total + 4 * ret[p].quad_rounds_total
               + 3 * ret[p].triple_rounds_total < ret[p].kills_total
=============================================================================
